---- MODULE Spec2Model ----
(***************************************************************************)
(* Feature-tree extraction of the SolidWorks FeatureManager design tree:   *)
(* the JSON extractors FMDT_v4 / FMDT_v5 (SolidWorksTreeExtractor) and the *)
(* analyser FMDT_v3 (SolidWorksTreeTraverser).                             *)
(*                                                                         *)
(* A document is a finite forest of features.  Features are numbered       *)
(* 1..n; parent[i] < i is the owning feature (0 for a top-level feature)   *)
(* and siblings are in native order by increasing number, so that          *)
(* FirstFeature / GetNextFeature / GetFirstSubFeature / GetNextSubFeature  *)
(* are walks along one sibling chain.  Every accessor of the COM object    *)
(* model may raise; fault[i] says which accessor of feature i does.        *)
(*                                                                         *)
(* Strings that the code inspects character by character (feature type     *)
(* names) are sequences of one-character strings.                          *)
(***************************************************************************)
EXTENDS Integers, Sequences, FiniteSets, TLC

VARIABLES
    doc,            \* the open document (sw_model): the native feature forest
    extractor,      \* which program runs: "v3", "v4", "v5" or "classify"
    pc,             \* position in the running program
    feature,        \* loop variable `feature` of the top-level walk (0 = None)
    creation_order, \* FMDT_v5 extract_feature_tree: creation_order
    tree_data,      \* FMDT_v5 extract_feature_tree: tree_data
    features,       \* FMDT_v4 extract_feature_tree: features
    complete_data,  \* FMDT_v4 extract_complete_tree: complete_data
    feature_index,  \* FMDT_v3 traverse_feature_tree: feature_index
    feature_data,   \* FMDT_v3 SolidWorksTreeTraverser.feature_data
    runs,           \* number of traverse_feature_tree calls started on the traverser
    first_run,      \* feature_data as observed after the first traversal returned
    type_name,      \* classifier input: a raw feature type string
    dispatched,     \* classifier output of each version for type_name
    sw_model,       \* self.sw_model of the extractor: "None" or "doc"
    session,        \* what the SolidWorks session answers to connect_to_solidworks
    exit_status,    \* exit status of the main.py process (-1 while it runs)
    accessors,      \* how each accessor of the feature under extraction answers
    attributes,     \* result of the category-specific attribute extractor
    sketch_segments,\* what each native sketch segment answers to its accessors
    entities,       \* result of _extract_sketch_entities
    file_list,      \* FMDT_v3 batch_analyze_files: the files of the batch
    results,        \* FMDT_v3 batch_analyze_files: what the call returned
    statistics,     \* what get_comprehensive_statistics last returned
    output_file,    \* the arguments and environment of the call that writes a file
    written,        \* the content of the JSON file last written
    returned,       \* what the call that writes or reads a file returned
    guide_content   \* create_feature_recreation_guide: the guide written

vars == << doc, extractor, pc, feature, creation_order, tree_data, features,
           complete_data, feature_index, feature_data, runs, first_run,
           type_name, dispatched, sw_model, session, exit_status, accessors,
           attributes, sketch_segments, entities, file_list, results,
           statistics, output_file, written, returned, guide_content >>

\* The state of the batch driver, of the statistics and of the files written
\* and read, which the extractors themselves never assign.
outside_extraction == << file_list, results, statistics, output_file, written,
                        returned, guide_content >>

\* The state of the parts of the repository a walk of the feature tree never
\* assigns: the connection, the process, the attribute and sketch extractors.
outside_walk == << sw_model, session, exit_status, accessors, attributes,
                   sketch_segments, entities >>

(***************************************************************************)
(* Bounds                                                                  *)
(***************************************************************************)
MaxNodes == 3
MaxFaults == 2
MaxRuns == 2
MaxWords == 2
MaxSegments == 3
MaxFiles == 2
MaxValues == 2
MaxCalls == 4

(***************************************************************************)
(* Python values                                                           *)
(***************************************************************************)
\* the empty dict {} (and the empty list [])
EmptyDict == [k \in {} |-> 0]

\* Python None where a dict was expected
None == [py_none |-> TRUE]

\* dict[key] = value
DictSet(d, key, value) ==
    [k \in DOMAIN d \cup {key} |-> IF k = key THEN value ELSE d[k]]

(***************************************************************************)
(* Strings: str.lower() and the substring test `kw in s`                   *)
(***************************************************************************)
LowerMap == [A |-> "a", B |-> "b", C |-> "c", D |-> "d", E |-> "e", F |-> "f", G |-> "g", H |-> "h", I |-> "i", J |-> "j", K |-> "k", L |-> "l", M |-> "m", N |-> "n", O |-> "o", P |-> "p", Q |-> "q", R |-> "r", S |-> "s", T |-> "t", U |-> "u", V |-> "v", W |-> "w", X |-> "x", Y |-> "y", Z |-> "z"]

LowerChar(c) == IF c \in DOMAIN LowerMap THEN LowerMap[c] ELSE c

Lower(s) == [i \in 1..Len(s) |-> LowerChar(s[i])]

Contains(kw, s) ==
    \E i \in 1..(Len(s) - Len(kw) + 1) : SubSeq(s, i, i + Len(kw) - 1) = kw

(***************************************************************************)
(* Type classification                                                     *)
(***************************************************************************)
\* FMDT_v3 _analyze_feature_by_type: the analyser the elif chain selects for
\* the lower-cased type name t
V3Chain(t) ==
       IF Contains(<<"s", "k", "e", "t", "c", "h">>, t) \/ Contains(<<"p", "r", "o", "f", "i", "l", "e", "f", "e", "a", "t", "u", "r", "e">>, t)
           THEN "sketch"
       ELSE IF Contains(<<"e", "x", "t", "r", "u", "d", "e">>, t) \/ Contains(<<"b", "o", "s", "s">>, t)
           THEN "extrude"
       ELSE IF Contains(<<"c", "u", "t">>, t)
           THEN "cut"
       ELSE IF Contains(<<"r", "e", "v", "o", "l", "v", "e">>, t)
           THEN "revolve"
       ELSE IF Contains(<<"f", "i", "l", "l", "e", "t">>, t)
           THEN "fillet"
       ELSE IF Contains(<<"c", "h", "a", "m", "f", "e", "r">>, t)
           THEN "chamfer"
       ELSE IF Contains(<<"h", "o", "l", "e">>, t)
           THEN "hole"
       ELSE IF Contains(<<"p", "a", "t", "t", "e", "r", "n">>, t)
           THEN "pattern"
       ELSE IF Contains(<<"m", "i", "r", "r", "o", "r">>, t)
           THEN "mirror"
       ELSE IF Contains(<<"s", "h", "e", "l", "l">>, t)
           THEN "shell"
       ELSE IF Contains(<<"d", "r", "a", "f", "t">>, t)
           THEN "draft"
       ELSE IF Contains(<<"r", "i", "b">>, t)
           THEN "rib"
       ELSE IF Contains(<<"l", "o", "f", "t">>, t)
           THEN "loft"
       ELSE IF Contains(<<"s", "w", "e", "e", "p">>, t)
           THEN "sweep"
       ELSE IF Contains(<<"p", "l", "a", "n", "e">>, t) \/ Contains(<<"r", "e", "f", "p", "l", "a", "n", "e">>, t)
           THEN "reference_plane"
       ELSE IF Contains(<<"a", "x", "i", "s">>, t)
           THEN "axis"
       ELSE IF Contains(<<"m", "a", "t", "e">>, t)
           THEN "mate"
       ELSE "generic"

\* the chain without `.lower()`
V3Dispatch_NoLower(feature_type) == V3Chain(feature_type)

V3Dispatch(feature_type) == V3Chain(Lower(feature_type))

\* FMDT_v4 _extract_feature_data: the type-specific branch ("none": no branch)
V4Dispatch(feature_type) ==
    IF Contains(<<"B", "o", "s", "s">>, feature_type) \/ Contains(<<"C", "u", "t">>, feature_type)
        THEN "extrude"
    ELSE IF Contains(<<"R", "e", "v", "o", "l", "v", "e">>, feature_type)
        THEN "revolve"
    ELSE IF Contains(<<"F", "i", "l", "l", "e", "t">>, feature_type)
        THEN "fillet"
    ELSE IF Contains(<<"C", "h", "a", "m", "f", "e", "r">>, feature_type)
        THEN "chamfer"
    ELSE IF Contains(<<"H", "o", "l", "e">>, feature_type)
        THEN "hole"
    ELSE IF Contains(<<"P", "a", "t", "t", "e", "r", "n">>, feature_type)
        THEN "pattern"
    ELSE IF Contains(<<"M", "i", "r", "r", "o", "r">>, feature_type)
        THEN "mirror"
    ELSE IF Contains(<<"S", "h", "e", "l", "l">>, feature_type)
        THEN "shell"
    ELSE IF Contains(<<"R", "i", "b">>, feature_type)
        THEN "rib"
    ELSE "none"

\* FMDT_v5 _extract_comprehensive_feature_data: the type-specific branch
V5Dispatch(feature_type) ==
    IF Contains(<<"E", "x", "t", "r", "u", "d", "e">>, feature_type)
        THEN "extrude"
    ELSE IF Contains(<<"C", "u", "t">>, feature_type)
        THEN "cut"
    ELSE IF Contains(<<"F", "i", "l", "l", "e", "t">>, feature_type)
        THEN "fillet"
    ELSE IF Contains(<<"P", "a", "t", "t", "e", "r", "n">>, feature_type)
        THEN "pattern"
    ELSE IF Contains(<<"H", "o", "l", "e">>, feature_type)
        THEN "hole"
    ELSE IF Contains(<<"S", "k", "e", "t", "c", "h">>, feature_type)
        THEN "sketch"
    ELSE "none"

\* the words raw type names are made of
Vocabulary ==
    << <<"S", "k", "e", "t", "c", "h">>,
       <<"P", "r", "o", "f", "i", "l", "e", "F", "e", "a", "t", "u", "r", "e">>,
       <<"E", "x", "t", "r", "u", "d", "e">>,
       <<"B", "o", "s", "s">>,
       <<"C", "u", "t">>,
       <<"R", "e", "v", "o", "l", "v", "e">>,
       <<"F", "i", "l", "l", "e", "t">>,
       <<"C", "h", "a", "m", "f", "e", "r">>,
       <<"H", "o", "l", "e">>,
       <<"P", "a", "t", "t", "e", "r", "n">>,
       <<"M", "i", "r", "r", "o", "r">>,
       <<"S", "h", "e", "l", "l">>,
       <<"D", "r", "a", "f", "t">>,
       <<"R", "i", "b">>,
       <<"L", "o", "f", "t">>,
       <<"S", "w", "e", "e", "p">>,
       <<"R", "e", "f", "P", "l", "a", "n", "e">>,
       <<"A", "x", "i", "s">>,
       <<"M", "a", "t", "e">>,
       <<"c", "u", "t">>,
       <<"S", "K", "E", "T", "C", "H">>,
       <<"W", "z", "d">>,
       <<"O", "r", "i", "g", "i", "n">>,
       <<"F", "o", "l", "d", "e", "r">> >>

RECURSIVE Concat(_)
Concat(ws) == IF ws = <<>> THEN <<>> ELSE Head(ws) \o Concat(Tail(ws))

WordSeqs == UNION { [1..n -> 1..Len(Vocabulary)] : n \in 1..MaxWords }

(***************************************************************************)
(* The document (session handle)                                           *)
(***************************************************************************)
\* feature names of the document
FeatureName(i) == "Feature" \o ToString(i)

\* raw type names of the features of a walked document
ProfileFeature == <<"P", "r", "o", "f", "i", "l", "e", "F", "e", "a", "t", "u", "r", "e">>
Boss == <<"B", "o", "s", "s">>
RefPlane == <<"R", "e", "f", "P", "l", "a", "n", "e">>
Sketch == <<"S", "k", "e", "t", "c", "h">>

\* sub-feature forests over the features 1..n
Shapes(n) == { p \in [1..n -> 0..n] : \A i \in 1..n : p[i] < i }

\* which accessor of each feature raises, at most MaxFaults faulty features
FaultPatterns(n, kinds) ==
    { f \in [1..n -> kinds \cup {"none"}] :
        Cardinality({ i \in 1..n : f[i] # "none" }) <= MaxFaults }

\* GetParents() returns the preceding feature or nothing
DependsPatterns(n) == { dp \in [1..n -> BOOLEAN] : n >= 1 => ~dp[1] }

Document(n, parent, name, type, fault, depends, meta_fault) ==
    [ n |-> n, parent |-> parent, name |-> name, type |-> type,
      fault |-> fault, depends |-> depends, meta_fault |-> meta_fault ]

Siblings(d, p) == { j \in 1..d.n : d.parent[j] = p }

Min(S) == CHOOSE x \in S : \A y \in S : x <= y

\* IModelDoc2.FirstFeature (0: None)
FirstFeature(d) == IF Siblings(d, 0) = {} THEN 0 ELSE Min(Siblings(d, 0))

NextSibling_SkipOne(d, f) ==
    LET later == { j \in Siblings(d, d.parent[f]) : j > f + 1 }
    IN  IF later = {} THEN 0 ELSE Min(later)

\* the next feature of the sibling chain of f (0: None)
NextSibling(d, f) ==
    LET later == { j \in Siblings(d, d.parent[f]) : j > f }
    IN  IF later = {} THEN 0 ELSE Min(later)

\* IFeature.GetNextFeature
GetNextFeature(d, f) == NextSibling(d, f)

\* IFeature.GetFirstSubFeature
GetFirstSubFeature(d, f) == IF Siblings(d, f) = {} THEN 0 ELSE Min(Siblings(d, f))

\* IFeature.GetNextSubFeature
GetNextSubFeature(d, f) == NextSibling(d, f)

\* IFeature.GetParents
GetParents(d, f) == IF d.depends[f] THEN << f - 1 >> ELSE << >>

(***************************************************************************)
(* Results of a call: a value, None, or a raised exception                 *)
(***************************************************************************)
Ok(x) == [kind |-> "ok", data |-> x]
ReturnsNone == [kind |-> "none"]
Raises == [kind |-> "raise"]

(***************************************************************************)
(* FMDT_v5  SolidWorksTreeExtractor                                        *)
(***************************************************************************)
\* _get_document_type
V5GetDocumentType(d) == IF d.meta_fault # "" THEN "unknown" ELSE "part"

\* _extract_reference_geometry
V5ExtractReferenceGeometry(d) ==
    IF d.meta_fault # "" THEN << >>
    ELSE << [type |-> "reference_plane", name |-> "Front Plane"] >>

V5ExtractMaterialInfo_NoneOnFault(d) ==
    IF d.meta_fault # "" THEN None ELSE [material_name |-> "Steel"]

\* _extract_material_info
V5ExtractMaterialInfo(d) ==
    IF d.meta_fault # "" THEN EmptyDict ELSE [material_name |-> "Steel"]

\* _extract_configurations
V5ExtractConfigurations(d) ==
    IF d.meta_fault # "" THEN << >> ELSE << [name |-> "Default", active |-> TRUE] >>

\* _get_feature_dependencies: the names of the parents; any fault ends the
\* loop with what was collected
V5GetFeatureDependencies(d, f) ==
    LET parents == GetParents(d, f) IN
    IF parents = << >> \/ d.fault[parents[1]] = "name"
    THEN << >>
    ELSE << d.name[parents[1]] >>

\* _extract_sketch_details
V5ExtractSketchDetails(d, f) ==
    [sketch_entities |-> << >>, dimensions |-> << >>, relations |-> << >>]

\* _extract_comprehensive_feature_data
V5ExtractComprehensiveFeatureData(d, f, order) ==
    IF d.fault[f] = "name"
    THEN Raises         \* feature.Name raises, and again in the handler
    ELSE IF d.fault[f] = "suppressed"
    THEN ReturnsNone    \* IsSuppressed raises, the handler returns None
    ELSE Ok([ creation_order |-> order,
              name |-> d.name[f],
              type |-> d.type[f],
              suppressed |-> FALSE,
              dependencies |-> V5GetFeatureDependencies(d, f),
              specific |-> V5Dispatch(d.type[f]) ])

V5NextCreationOrder_Always(order, info) == order + 1

\* extract_feature_tree: `if feature_info: ... creation_order += 1`
V5NextCreationOrder(order, info) ==
    IF info.kind = "ok" THEN order + 1 ELSE order

V5UpdateRelationships_ByParent(rel, info) ==
    IF info.kind = "ok" /\ info.data.dependencies # << >>
    THEN DictSet(rel, info.data.dependencies[1], << info.data.name >>)
    ELSE rel

\* extract_feature_tree: the relationship map
V5UpdateRelationships(rel, info) ==
    IF info.kind = "ok" /\ info.data.dependencies # << >>
    THEN DictSet(rel, info.data.name, info.data.dependencies)
    ELSE rel

\* extract_feature_tree: sketch_data
V5UpdateSketchData(sk, d, f, info) ==
    IF info.kind = "ok" /\ info.data.type \in {ProfileFeature, Sketch}
    THEN DictSet(sk, info.data.name, V5ExtractSketchDetails(d, f))
    ELSE sk

\* extract_feature_tree: the body of `if feature_info:`
V5Record(td, d, f, info) ==
    IF info.kind = "ok"
    THEN [td EXCEPT !.creation_sequence = Append(@, info.data),
                    !.feature_relationships = V5UpdateRelationships(@, info),
                    !.sketch_data = V5UpdateSketchData(@, d, f, info)]
    ELSE td

V5TreeExcept_KeyboardInterrupt(exc) == exc = "KeyboardInterrupt"

\* extract_feature_tree: `except Exception as e` around the walk catches the
\* exception classes an accessor fault raises
V5TreeExcept(exc) == exc \in { "Exception", "AttributeError", "com_error" }

\* where extract_feature_tree goes when the walk raises: the handler prints
\* and `return tree_data` follows ("done"); uncaught, the exception leaves
\* extract_feature_tree ("raised")
V5AfterFault == IF V5TreeExcept("com_error") THEN "done" ELSE "raised"

V5Start ==
    /\ extractor = "v5" /\ pc = "start"
    /\ tree_data' = [ document_type |-> IF sw_model = "None" THEN "unknown"
                                        ELSE V5GetDocumentType(doc),
                      creation_sequence |-> << >>,
                      feature_relationships |-> EmptyDict,
                      sketch_data |-> EmptyDict,
                      reference_geometry |-> << >>,
                      material_properties |-> EmptyDict,
                      configurations |-> << >> ]
    \* self.sw_model.FirstFeature() on None raises AttributeError inside the
    \* try: the handler prints and the defaults are returned
    /\ IF sw_model = "None"
       THEN feature' = 0 /\ pc' = V5AfterFault
       ELSE feature' = FirstFeature(doc) /\ pc' = "walk"
    /\ creation_order' = 0
    /\ UNCHANGED << outside_extraction, outside_walk, doc, extractor, features, complete_data, feature_index,
                    feature_data, runs, first_run, type_name, dispatched >>

\* one iteration of `while feature is not None`
V5VisitFeature ==
    /\ extractor = "v5" /\ pc = "walk" /\ feature # 0
    /\ LET info == V5ExtractComprehensiveFeatureData(doc, feature, creation_order) IN
       IF info.kind = "raise"
       THEN /\ pc' = V5AfterFault
            /\ UNCHANGED << tree_data, creation_order, feature >>
       ELSE /\ tree_data' = V5Record(tree_data, doc, feature, info)
            /\ creation_order' = V5NextCreationOrder(creation_order, info)
            /\ IF doc.fault[feature] = "next"
               THEN pc' = V5AfterFault /\ UNCHANGED feature
               ELSE pc' = pc /\ feature' = GetNextFeature(doc, feature)
    /\ UNCHANGED << outside_extraction, outside_walk, doc, extractor, features, complete_data, feature_index,
                    feature_data, runs, first_run, type_name, dispatched >>

\* the walk ended: the document-level context, then `return tree_data`
V5Finish ==
    /\ extractor = "v5" /\ pc = "walk" /\ feature = 0
    /\ tree_data' = [tree_data EXCEPT
                        !.reference_geometry = V5ExtractReferenceGeometry(doc),
                        !.material_properties = V5ExtractMaterialInfo(doc),
                        !.configurations = V5ExtractConfigurations(doc)]
    /\ pc' = "done"
    /\ UNCHANGED << outside_extraction, outside_walk, doc, extractor, feature, creation_order, features,
                    complete_data, feature_index, feature_data, runs,
                    first_run, type_name, dispatched >>

(***************************************************************************)
(* FMDT_v4  SolidWorksTreeExtractor                                        *)
(***************************************************************************)
V4AppendFeature_Prepend(fs, fd) ==
    IF fd.kind = "ok" THEN << fd.data >> \o fs ELSE fs

\* `if feature_data: features.append(feature_data)`
V4AppendFeature(fs, fd) ==
    IF fd.kind = "ok" THEN Append(fs, fd.data) ELSE fs

RECURSIVE V4ExtractFeatureData(_, _), V4ExtractChildren(_, _, _)

\* _extract_feature_data: the sub-feature loop, from sub-feature sub on
V4ExtractChildren(d, sub, children) ==
    IF sub = 0
    THEN Ok(children)
    ELSE LET child_data == V4ExtractFeatureData(d, sub) IN
         IF child_data.kind = "raise" \/ d.fault[sub] = "next"
         THEN Raises
         ELSE V4ExtractChildren(d, GetNextSubFeature(d, sub),
                                V4AppendFeature(children, child_data))

\* _extract_feature_data
V4ExtractFeatureData(d, f) ==
    IF d.fault[f] = "name"
    THEN Raises         \* feature.Name raises, and again in the handler
    ELSE IF d.fault[f] = "suppressed"
    THEN ReturnsNone    \* IsSuppressed raises, the handler returns None
    ELSE LET children == V4ExtractChildren(d, GetFirstSubFeature(d, f), << >>) IN
         IF children.kind = "raise"
         THEN ReturnsNone   \* a fault below surfaces here, the handler returns None
         ELSE Ok([ name |-> d.name[f],
                   type |-> d.type[f],
                   suppressed |-> FALSE,
                   specific |-> V4Dispatch(d.type[f]),
                   children |-> children.data ])

\* the accessors behind the document-level fields of extract_complete_tree
V4DocumentAccessors ==
    { "GetType", "GetTitle", "GetPathName", "GetUserUnit", "RevisionNumber",
      "GetMaterialPropertyName2", "CustomPropertyManager" }

\* _get_document_units: the handler returns the default units
V4GetDocumentUnits(d) ==
    IF d.meta_fault = "GetUserUnit"
    THEN [length |-> "millimeters", mass |-> "grams"]
    ELSE [length |-> "inches", mass |-> "pounds"]

\* get_document_info: _get_document_type, GetTitle, GetPathName and
\* RevisionNumber are read with no handler
V4GetDocumentInfo(d) ==
    IF d.meta_fault \in { "GetType", "GetTitle", "GetPathName", "RevisionNumber" }
    THEN Raises
    ELSE Ok([document_type |-> "part", title |-> "Part1",
             path |-> "Part1.SLDPRT", units |-> V4GetDocumentUnits(d),
             solidworks_version |-> "32.1.0"])

\* extract_materials
V4ExtractMaterials(d) ==
    IF d.meta_fault = "GetMaterialPropertyName2" THEN << >>
    ELSE << [name |-> "Steel", database |-> "solidworks materials"] >>

\* extract_custom_properties
V4ExtractCustomProperties(d) ==
    IF d.meta_fault = "CustomPropertyManager" THEN EmptyDict
    ELSE [Description |-> "bracket"]

V4FeatureCount_WithChildren(fs) ==
    Len(fs) + Len(SelectSeq(fs, LAMBDA node : node.children # << >>))

\* extract_complete_tree: "feature_count": len(features)
V4FeatureCount(fs) == Len(fs)

\* extract_complete_tree up to the start of the walk
V4Start ==
    /\ extractor = "v4" /\ pc = "start"
    /\ LET doc_info == V4GetDocumentInfo(doc) IN
       IF doc_info.kind = "raise"
       THEN pc' = "raised" /\ UNCHANGED << complete_data, feature >>
       ELSE /\ complete_data' = [document_info |-> doc_info.data]
            /\ feature' = FirstFeature(doc)
            /\ pc' = "walk"
    /\ features' = << >>
    /\ UNCHANGED << outside_extraction, outside_walk, doc, extractor, creation_order, tree_data, feature_index,
                    feature_data, runs, first_run, type_name, dispatched >>

\* extract_feature_tree: one iteration of `while feature is not None`
V4VisitFeature ==
    /\ extractor = "v4" /\ pc = "walk" /\ feature # 0
    /\ LET fd == V4ExtractFeatureData(doc, feature) IN
       IF fd.kind = "raise"
       THEN pc' = "aborted" /\ UNCHANGED << features, feature >>
       ELSE /\ features' = V4AppendFeature(features, fd)
            /\ IF doc.fault[feature] = "next"
               THEN pc' = "aborted" /\ UNCHANGED feature
               ELSE pc' = pc /\ feature' = GetNextFeature(doc, feature)
    /\ UNCHANGED << outside_extraction, outside_walk, doc, extractor, creation_order, tree_data, complete_data,
                    feature_index, feature_data, runs, first_run, type_name,
                    dispatched >>

\* extract_feature_tree returns (normally or from its handler) and
\* extract_complete_tree assembles the document
V4Finish ==
    /\ extractor = "v4"
    /\ (pc = "walk" /\ feature = 0) \/ pc = "aborted"
    /\ complete_data' = [ document_info |-> complete_data.document_info,
                          feature_tree |-> features,
                          materials |-> V4ExtractMaterials(doc),
                          custom_properties |-> V4ExtractCustomProperties(doc),
                          feature_count |-> V4FeatureCount(features) ]
    /\ pc' = "done"
    /\ UNCHANGED << outside_extraction, outside_walk, doc, extractor, feature, creation_order, tree_data, features,
                    feature_index, feature_data, runs, first_run, type_name,
                    dispatched >>

(***************************************************************************)
(* FMDT_v3  SolidWorksTreeTraverser                                        *)
(***************************************************************************)
\* the analysers whose whole body is under `if <specific feature>:`
V3GuardedAnalysers ==
    { "sketch", "extrude", "cut", "revolve", "fillet", "chamfer", "hole",
      "pattern", "shell", "draft", "rib", "mate" }

\* _analyze_feature_by_type: geometry_info after the call
V3AnalyzeFeatureByType(d, f) ==
    IF d.fault[f] = "specific"
    THEN EmptyDict      \* GetSpecificFeature2 raises: caught, nothing dispatched
    ELSE LET analyser == V3Dispatch(d.type[f]) IN
         IF d.fault[f] = "nullspec" /\ analyser \in V3GuardedAnalysers
         THEN EmptyDict
         ELSE [type |-> analyser]

\* _analyze_feature_comprehensive
V3AnalyzeFeatureComprehensive(d, f, indent_level, index) ==
    LET feature_info == [ index |-> index, indent_level |-> indent_level,
                          name |-> "", type |-> << >>, state |-> "",
                          geometry_info |-> EmptyDict ]
        named == [feature_info EXCEPT !.name = d.name[f], !.type = d.type[f],
                                      !.state = "ACTIVE",
                                      !.geometry_info = V3AnalyzeFeatureByType(d, f)]
        Failed(info) == [k \in DOMAIN info \cup {"error"} |->
                            IF k = "error" THEN "fault" ELSE info[k]]
    IN  IF d.fault[f] \in {"name", "suppressed"}
        THEN Failed(feature_info)   \* raised before name and type are stored
        ELSE IF d.fault[f] = "params"
        THEN Failed(named)          \* _get_feature_parameters re-raises from its handler
        ELSE named

V3SubIndex_Flat(parent_index, sub_index) == ToString(sub_index)

\* f"{parent_index}.{sub_index}"
V3SubIndex(parent_index, sub_index) == parent_index \o "." \o ToString(sub_index)

V3AppendRecord_Front(data, info) == << info >> \o data

\* self.feature_data.append(feature_info), before the sub-features are visited
V3AppendRecord(data, info) == Append(data, info)

RECURSIVE V3TraverseSubFeatures(_, _, _, _, _, _)

\* _traverse_sub_features from sub-feature f on: the records it appends to
\* feature_data and whether it raises
V3TraverseSubFeatures(d, f, indent_level, parent_index, sub_index, appended) ==
    IF f = 0
    THEN [appended |-> appended, raised |-> FALSE]
    ELSE LET index == V3SubIndex(parent_index, sub_index + 1)
             info == V3AnalyzeFeatureComprehensive(d, f, indent_level, index)
             below == V3TraverseSubFeatures(d, GetFirstSubFeature(d, f),
                                            indent_level + 1, index, 0,
                                            V3AppendRecord(appended, info))
         IN  IF below.raised \/ d.fault[f] = "next"
             THEN [appended |-> below.appended, raised |-> TRUE]
             ELSE V3TraverseSubFeatures(d, GetNextSubFeature(d, f), indent_level,
                                        parent_index, sub_index + 1, below.appended)

\* traverse_feature_tree up to the start of the walk
V3Start ==
    /\ extractor = "v3"
    /\ pc = "start" \/ (pc = "done" /\ runs < MaxRuns)
    /\ runs' = runs + 1
    /\ IF doc.meta_fault # ""
       THEN pc' = "done" /\ UNCHANGED << feature, feature_index >>
       ELSE pc' = "walk" /\ feature' = FirstFeature(doc) /\ feature_index' = 0
    /\ first_run' = IF doc.meta_fault # "" /\ runs = 0 THEN feature_data ELSE first_run
    /\ UNCHANGED << outside_extraction, outside_walk, doc, extractor, creation_order, tree_data, features,
                    complete_data, feature_data, type_name, dispatched >>

\* one iteration of `while feature is not None`; the integer index of a
\* top-level record is kept in the form str() gives it in a sub-feature index
V3VisitFeature ==
    /\ extractor = "v3" /\ pc = "walk" /\ feature # 0
    /\ LET index == ToString(feature_index + 1)
           info == V3AnalyzeFeatureComprehensive(doc, feature, 0, index)
           below == V3TraverseSubFeatures(doc, GetFirstSubFeature(doc, feature),
                                          1, index, 0, V3AppendRecord(feature_data, info))
           raised == below.raised \/ doc.fault[feature] = "next"
       IN  /\ feature_index' = feature_index + 1
           /\ feature_data' = below.appended
           /\ IF raised
              THEN pc' = "done" /\ UNCHANGED feature
              ELSE pc' = pc /\ feature' = GetNextFeature(doc, feature)
           /\ first_run' = IF raised /\ runs = 1 THEN below.appended ELSE first_run
    /\ UNCHANGED << outside_extraction, outside_walk, doc, extractor, creation_order, tree_data, features,
                    complete_data, runs, type_name, dispatched >>

\* the walk ended: traverse_feature_tree returns
V3Finish ==
    /\ extractor = "v3" /\ pc = "walk" /\ feature = 0
    /\ pc' = "done"
    /\ first_run' = IF runs = 1 THEN feature_data ELSE first_run
    /\ UNCHANGED << outside_extraction, outside_walk, doc, extractor, feature, creation_order, tree_data, features,
                    complete_data, feature_index, feature_data, runs, type_name,
                    dispatched >>

(***************************************************************************)
(* The three dispatchers applied to one raw type name                      *)
(***************************************************************************)
ClassifyV3 ==
    /\ extractor = "classify" /\ pc = "start"
    /\ dispatched' = [dispatched EXCEPT !.v3 = V3Dispatch(type_name)]
    /\ pc' = "v3"
    /\ UNCHANGED << outside_extraction, outside_walk, doc, extractor, feature, creation_order, tree_data, features,
                    complete_data, feature_index, feature_data, runs, first_run,
                    type_name >>

ClassifyV4 ==
    /\ extractor = "classify" /\ pc = "v3"
    /\ dispatched' = [dispatched EXCEPT !.v4 = V4Dispatch(type_name)]
    /\ pc' = "v4"
    /\ UNCHANGED << outside_extraction, outside_walk, doc, extractor, feature, creation_order, tree_data, features,
                    complete_data, feature_index, feature_data, runs, first_run,
                    type_name >>

ClassifyV5 ==
    /\ extractor = "classify" /\ pc = "v4"
    /\ dispatched' = [dispatched EXCEPT !.v5 = V5Dispatch(type_name)]
    /\ pc' = "done"
    /\ UNCHANGED << outside_extraction, outside_walk, doc, extractor, feature, creation_order, tree_data, features,
                    complete_data, feature_index, feature_data, runs, first_run,
                    type_name >>

(***************************************************************************)
(* Documents and specifications                                            *)
(***************************************************************************)
EmptyDocument == Document(0, << >>, << >>, << >>, << >>, << >>, "")

\* FMDT_v5 walks the top-level chain only: flat documents, names may repeat
IsDocV5(d) ==
    \E n \in 0..MaxNodes :
      \E nm \in [1..n -> {FeatureName(1), FeatureName(2)}],
         ty \in [1..n -> {ProfileFeature, Boss}],
         fl \in FaultPatterns(n, {"name", "suppressed", "next"}),
         dp \in DependsPatterns(n),
         mf \in { "", "all" } :
        d = Document(n, [i \in 1..n |-> 0], nm, ty, fl, dp, mf)

\* FMDT_v4 walks the whole forest
IsDocV4(d) ==
    \E n \in 0..MaxNodes :
      \E p \in Shapes(n),
         ty \in [1..n -> {ProfileFeature, Boss}],
         fl \in FaultPatterns(n, {"name", "suppressed", "next"}),
         mf \in { "" } \cup V4DocumentAccessors :
        d = Document(n, p, [i \in 1..n |-> FeatureName(i)], ty, fl,
                     [i \in 1..n |-> FALSE], mf)

\* FMDT_v3 walks the whole forest and classifies every feature
IsDocV3(d) ==
    \E n \in 0..MaxNodes :
      \E p \in Shapes(n),
         ty \in [1..n -> {Boss, RefPlane}],
         fl \in FaultPatterns(n, {"name", "suppressed", "specific",
                                  "nullspec", "params", "next"}) :
        d = Document(n, p, [i \in 1..n |-> FeatureName(i)], ty, fl,
                     [i \in 1..n |-> FALSE], "")

\* no batch, no statistics, no file written or read
NoFiles ==
    /\ file_list = << >> /\ results = EmptyDict /\ statistics = None
    /\ output_file = EmptyDict /\ written = << >> /\ returned = None
    /\ guide_content = << >>

\* nothing has run yet outside the walk
NoSession ==
    /\ NoFiles
    /\ session = EmptyDict /\ exit_status = -1
    /\ accessors = EmptyDict /\ attributes = EmptyDict
    /\ sketch_segments = << >> /\ entities = << >>

Idle ==
    /\ pc = "start"
    /\ NoSession
    /\ feature = 0 /\ creation_order = 0 /\ tree_data = EmptyDict
    /\ features = << >> /\ complete_data = EmptyDict
    /\ feature_index = 0 /\ feature_data = << >> /\ runs = 0 /\ first_run = << >>

\* extract_feature_tree is callable whether or not connect_to_solidworks has
\* set sw_model
InitV5 ==
    /\ extractor = "v5" /\ Idle
    /\ \/ sw_model = "doc" /\ IsDocV5(doc)
       \/ sw_model = "None" /\ doc = EmptyDocument
    /\ type_name = << >> /\ dispatched = EmptyDict

InitV4 ==
    /\ extractor = "v4" /\ IsDocV4(doc) /\ Idle /\ sw_model = "doc"
    /\ type_name = << >> /\ dispatched = EmptyDict

InitV3 ==
    /\ extractor = "v3" /\ IsDocV3(doc) /\ Idle /\ sw_model = "doc"
    /\ type_name = << >> /\ dispatched = EmptyDict

InitClassify ==
    /\ extractor = "classify" /\ doc = EmptyDocument /\ Idle /\ sw_model = "doc"
    /\ \E ws \in WordSeqs : type_name = Concat([i \in DOMAIN ws |-> Vocabulary[ws[i]]])
    /\ dispatched = [v3 |-> "", v4 |-> "", v5 |-> ""]

NextV5 == V5Start \/ V5VisitFeature \/ V5Finish
NextV4 == V4Start \/ V4VisitFeature \/ V4Finish
NextV3 == V3Start \/ V3VisitFeature \/ V3Finish
NextClassify == ClassifyV3 \/ ClassifyV4 \/ ClassifyV5

SpecV5 == InitV5 /\ [][NextV5]_vars
SpecV4 == InitV4 /\ [][NextV4]_vars
SpecV3 == InitV3 /\ [][NextV3]_vars
SpecClassify == InitClassify /\ [][NextClassify]_vars

\* both JSON extractors
Init == InitV4 \/ InitV5
Next == NextV4 \/ NextV5
Spec == Init /\ [][Next]_vars

(***************************************************************************)
(* Category-specific attribute extractors                                  *)
(*                                                                         *)
(* accessors describes the feature under extraction:                       *)
(*   category    which extractor the dispatch has chosen                   *)
(*   definition  GetDefinition / GetSpecificFeature2: "ok", "none" (the    *)
(*               call returns None) or "fault"                             *)
(*   type_name   GetTypeName: "ok" or "fault"                              *)
(*   attr        per result key, whether its accessor answers: "ok" or     *)
(*               "fault"                                                   *)
(*   fault_class how a faulting accessor fails: "unsupported" (the member  *)
(*               does not exist: AttributeError) or "raise" (the call      *)
(*               itself fails: a COM error)                                *)
(* A result maps each key to "value" (read from the feature), "default"    *)
(* (the fallback of the code) or "constant" (a literal of the code).       *)
(***************************************************************************)
V4Categories ==
    { "extrude", "revolve", "fillet", "chamfer", "hole", "pattern", "mirror",
      "shell", "rib" }

\* the keys of the dict literal of _extract_<category>_data that read feat_def
V4Schema(category) ==
    CASE category = "extrude" ->
             { "direction", "end_condition", "depth", "draft_angle",
               "reverse_direction" }
      [] category = "revolve" -> { "angle", "direction", "reverse_direction" }
      [] category = "fillet"  -> { "radius", "full_round", "edge_count" }
      [] category = "chamfer" -> { "distance", "angle", "type" }
      [] category = "hole"    ->
             { "hole_type", "diameter", "depth", "countersink", "counterbore" }
      [] category = "pattern" -> { "pattern_type", "instance_count", "spacing" }
      [] category = "mirror"  -> { "feature_count" }
      [] category = "shell"   -> { "thickness", "outward" }
      [] category = "rib"     ->
             { "thickness", "extrude_from", "flip_material_side" }

\* the keys of the literal that read nothing
V4Literals(category) ==
    IF category = "mirror" THEN { "mirror_about_plane" } ELSE {}

\* does reading key k raise inside the literal?  `spacing` is the one key
\* behind a hasattr test, which answers False for a missing member only
V4KeyRaises(category, acc, k) ==
    /\ acc.attr[k] = "fault"
    /\ ~ (category = "pattern" /\ k = "spacing" /\ acc.fault_class = "unsupported")

\* _extract_<category>_data: one try around GetDefinition and the whole
\* literal, `except: return {}`
V4ExtractData(category, acc) ==
    IF acc.definition # "ok"
    THEN Ok(EmptyDict)
    ELSE IF \E k \in V4Schema(category) : V4KeyRaises(category, acc, k)
    THEN Ok(EmptyDict)
    ELSE Ok([ k \in V4Schema(category) \cup V4Literals(category) |->
                IF k \in V4Literals(category) THEN "constant"
                ELSE IF acc.attr[k] = "ok" THEN "value" ELSE "default" ])

V5Categories ==
    { "extrude", "fillet", "cut", "linear_pattern", "circular_pattern",
      "other_pattern", "hole" }

\* the keys read with getattr(<specific feature>, member, default)
V5Schema(category) ==
    CASE category = "extrude" ->
             { "end_condition_type", "depth_value", "reverse_direction",
               "merge_result" }
      [] category = "fillet" ->
             { "fillet_type", "radius_value", "propagate_to_tangent" }
      [] category = "cut" ->
             { "end_condition", "depth", "reverse_direction",
               "flip_side_to_cut", "draft_angle", "draft_outward" }
      [] category = "linear_pattern" ->
             { "direction_1_count", "direction_1_spacing", "direction_2_count",
               "direction_2_spacing", "direction_1_reverse",
               "direction_2_reverse" }
      [] category = "circular_pattern" ->
             { "total_instances", "angle_spacing", "equal_spacing",
               "reverse_direction" }
      [] category = "other_pattern" -> {}
      [] category = "hole" ->
             { "hole_type", "diameter", "depth", "end_condition",
               "countersink_diameter", "countersink_angle",
               "counterbore_diameter", "counterbore_depth",
               "thread_designation", "thread_pitch" }

\* the key computed from feature.GetTypeName()
V5TypeKeys(category) ==
    CASE category = "extrude" -> { "extrude_type" }
      [] category = "cut" -> { "cut_type" }
      [] OTHER -> {}

\* the key filled by _get_fillet_edges, which has a handler of its own
V5EdgeKeys(category) == IF category = "fillet" THEN { "selected_edges" } ELSE {}

\* the keys that are literals
V5Literals(category) ==
    IF category \in { "linear_pattern", "circular_pattern" }
    THEN { "pattern_type" } ELSE {}

\* the extractors that test `if <specific feature>:` before the literal
V5TestsSpecific(category) == category \notin { "extrude", "fillet" }

\* the extractors that call feature.GetTypeName() inside the try
V5ReadsTypeName(category) ==
    category \in { "extrude", "cut", "linear_pattern", "circular_pattern",
                   "other_pattern" }

V5ExtractData_NoHandler(category, acc) ==
    IF acc.definition = "fault" THEN Raises ELSE Ok(EmptyDict)

\* _extract_extrude_data, _extract_fillet_data, _extract_cut_data,
\* _extract_pattern_data, _extract_hole_data
V5ExtractData(category, acc) ==
    IF acc.definition = "fault"
    THEN Ok(EmptyDict)
    ELSE IF acc.definition = "none" /\ V5TestsSpecific(category)
    THEN Ok(EmptyDict)
    ELSE IF V5ReadsTypeName(category) /\ acc.type_name = "fault"
    THEN Ok(EmptyDict)
    ELSE IF category = "other_pattern"
    THEN Ok(EmptyDict)
    ELSE IF /\ acc.definition = "ok" /\ acc.fault_class = "raise"
            /\ \E k \in V5Schema(category) : acc.attr[k] = "fault"
    THEN Ok(EmptyDict)
    ELSE Ok([ k \in V5Schema(category) \cup V5TypeKeys(category)
                    \cup V5EdgeKeys(category) \cup V5Literals(category) |->
                IF k \in V5Literals(category) THEN "constant"
                ELSE IF k \in V5TypeKeys(category) THEN "value"
                ELSE IF acc.definition = "ok" /\ acc.attr[k] = "ok"
                THEN "value" ELSE "default" ])

\* FMDT_v3 _analyze_fillet_feature: Radius, then GetEdgeCount, in one inner try
V3FilletKeys == { "radius", "edge_count" }

V3AnalyzeFilletFeature(acc) ==
    IF acc.definition # "ok"
    THEN EmptyDict
    ELSE [ type |-> "fillet",
           details |->
               IF acc.attr["radius"] = "fault" THEN EmptyDict
               ELSE IF acc.attr["edge_count"] = "fault"
               THEN [ k \in { "radius" } |-> "value" ]
               ELSE [ k \in V3FilletKeys |-> "value" ] ]

\* the keys of the result of the extractor of `category` in version v
AttributeKeys(v, category) ==
    CASE v = "v4" -> V4Schema(category) \cup V4Literals(category)
      [] v = "v5" -> V5Schema(category) \cup V5TypeKeys(category)
                       \cup V5EdgeKeys(category) \cup V5Literals(category)
      [] v = "v3" -> V3FilletKeys

\* the keys behind an accessor of the definition object
AccessorKeys(v, category) ==
    CASE v = "v4" -> V4Schema(category)
      [] v = "v5" -> V5Schema(category) \cup V5EdgeKeys(category)
      [] v = "v3" -> V3FilletKeys

ExtractV4Attributes ==
    /\ extractor = "v4" /\ pc = "extract"
    /\ attributes' = V4ExtractData(accessors.category, accessors)
    /\ pc' = "done"
    /\ UNCHANGED << outside_extraction, doc, extractor, feature, creation_order, tree_data, features,
                    complete_data, feature_index, feature_data, runs, first_run,
                    type_name, dispatched, sw_model, session, exit_status,
                    accessors, sketch_segments, entities >>

ExtractV5Attributes ==
    /\ extractor = "v5" /\ pc = "extract"
    /\ attributes' = V5ExtractData(accessors.category, accessors)
    /\ pc' = "done"
    /\ UNCHANGED << outside_extraction, doc, extractor, feature, creation_order, tree_data, features,
                    complete_data, feature_index, feature_data, runs, first_run,
                    type_name, dispatched, sw_model, session, exit_status,
                    accessors, sketch_segments, entities >>

AnalyzeV3Fillet ==
    /\ extractor = "v3" /\ pc = "extract"
    /\ attributes' = Ok(V3AnalyzeFilletFeature(accessors))
    /\ pc' = "done"
    /\ UNCHANGED << outside_extraction, doc, extractor, feature, creation_order, tree_data, features,
                    complete_data, feature_index, feature_data, runs, first_run,
                    type_name, dispatched, sw_model, session, exit_status,
                    accessors, sketch_segments, entities >>

\* a feature of the category, with any answer of each of its accessors
IsAccessors(v, acc) ==
    \E category \in (CASE v = "v4" -> V4Categories
                       [] v = "v5" -> V5Categories
                       [] v = "v3" -> { "fillet" }) :
    \E definition \in { "ok", "none", "fault" } :
    \E tn \in { "ok", "fault" } :
    \E fault_class \in { "unsupported", "raise" } :
    \E attr \in [ AccessorKeys(v, category) -> { "ok", "fault" } ] :
        acc = [ category |-> category, definition |-> definition,
                type_name |-> tn, fault_class |-> fault_class, attr |-> attr ]

InitAttributes ==
    /\ extractor \in { "v3", "v4", "v5" }
    /\ IsAccessors(extractor, accessors)
    /\ pc = "extract"
    /\ doc = EmptyDocument /\ sw_model = "doc"
    /\ feature = 0 /\ creation_order = 0 /\ tree_data = EmptyDict
    /\ features = << >> /\ complete_data = EmptyDict
    /\ feature_index = 0 /\ feature_data = << >> /\ runs = 0 /\ first_run = << >>
    /\ type_name = << >> /\ dispatched = EmptyDict
    /\ session = EmptyDict /\ exit_status = -1
    /\ attributes = EmptyDict
    /\ sketch_segments = << >> /\ entities = << >>
    /\ NoFiles

NextAttributes == ExtractV4Attributes \/ ExtractV5Attributes \/ AnalyzeV3Fillet

SpecAttributes == InitAttributes /\ [][NextAttributes]_vars

(***************************************************************************)
(* _extract_sketch_entities of FMDT_v4 and FMDT_v5                         *)
(*                                                                         *)
(* sketch_segments describes the sketch:                                   *)
(*   get       GetSketchSegments: "ok", "none" or "fault"                  *)
(*   segments  the native segments in native order; each has at most one   *)
(*             faulting accessor (`faulting`, "" for none) which fails as  *)
(*             fault_class says: "unsupported" (the member does not exist  *)
(*             for this segment type) or "raise" (the call fails)          *)
(* An entry of the result records the native position it was read from     *)
(* (`segment`) and its fields.                                             *)
(***************************************************************************)
V4SegmentAccessors == { "GetType", "GetLength", "ConstructionGeometry" }

V5SegmentAccessors ==
    { "GetType", "GetStartPoint2", "GetEndPoint2", "GetCenterPoint2",
      "GetRadius", "ConstructionGeometry" }

\* the key each accessor fills
SegmentKey(accessor) ==
    CASE accessor = "GetType" -> "type"
      [] accessor = "GetLength" -> "length"
      [] accessor = "ConstructionGeometry" -> "construction"
      [] accessor = "GetStartPoint2" -> "start_point"
      [] accessor = "GetEndPoint2" -> "end_point"
      [] accessor = "GetCenterPoint2" -> "center_point"
      [] accessor = "GetRadius" -> "radius"

\* FMDT_v4: seg.GetType() and seg.ConstructionGeometry are read directly,
\* GetLength through getattr with a default
V4SegmentRaises(seg) ==
    /\ seg.faulting # ""
    /\ ~ (seg.faulting = "GetLength" /\ seg.fault_class = "unsupported")

V4Entity(i, seg) ==
    [ segment |-> i,
      fields |-> [ k \in { SegmentKey(a) : a \in V4SegmentAccessors } |->
                     IF seg.faulting # "" /\ k = SegmentKey(seg.faulting)
                     THEN "default" ELSE "value" ] ]

\* FMDT_v5: segment.GetType() is read directly, the others through getattr
\* with a default
V5SegmentRaises(seg) ==
    /\ seg.faulting # ""
    /\ (seg.faulting = "GetType" \/ seg.fault_class = "raise")

\* the None values are filtered out; `construction` defaults to False
V5Entity(i, seg) ==
    [ segment |-> i,
      fields |-> [ k \in { SegmentKey(a) :
                             a \in { b \in V5SegmentAccessors :
                                       b = seg.faulting => b = "ConstructionGeometry" } } |->
                     IF seg.faulting # "" /\ k = SegmentKey(seg.faulting)
                     THEN "default" ELSE "value" ] ]

RECURSIVE SketchEntitiesFrom(_, _, _, _)
\* the `for` loop inside the try: the first raising segment ends the loop and
\* `except: pass` keeps what was appended before it
SketchEntitiesFrom(v, segs, i, acc) ==
    IF i > Len(segs) THEN acc
    ELSE IF (IF v = "v4" THEN V4SegmentRaises(segs[i]) ELSE V5SegmentRaises(segs[i]))
    THEN acc
    ELSE SketchEntitiesFrom(v, segs, i + 1,
             Append(acc, IF v = "v4" THEN V4Entity(i, segs[i])
                         ELSE V5Entity(i, segs[i])))

ExtractSketchEntities(v, sketch) ==
    IF sketch.get # "ok" THEN << >>
    ELSE SketchEntitiesFrom(v, sketch.segments, 1, << >>)

V4ExtractSketchEntities ==
    /\ extractor = "v4" /\ pc = "extract"
    /\ entities' = ExtractSketchEntities("v4", sketch_segments)
    /\ pc' = "done"
    /\ UNCHANGED << outside_extraction, doc, extractor, feature, creation_order, tree_data, features,
                    complete_data, feature_index, feature_data, runs, first_run,
                    type_name, dispatched, sw_model, session, exit_status,
                    accessors, attributes, sketch_segments >>

V5ExtractSketchEntities ==
    /\ extractor = "v5" /\ pc = "extract"
    /\ entities' = ExtractSketchEntities("v5", sketch_segments)
    /\ pc' = "done"
    /\ UNCHANGED << outside_extraction, doc, extractor, feature, creation_order, tree_data, features,
                    complete_data, feature_index, feature_data, runs, first_run,
                    type_name, dispatched, sw_model, session, exit_status,
                    accessors, attributes, sketch_segments >>

\* a native segment of version v's sketch
IsSegment(v, seg) ==
    \/ seg = [ faulting |-> "", fault_class |-> "unsupported" ]
    \/ \E a \in (IF v = "v4" THEN V4SegmentAccessors ELSE V5SegmentAccessors) :
       \E c \in { "unsupported", "raise" } :
           seg = [ faulting |-> a, fault_class |-> c ]

IsSketch(v, sketch) ==
    \E get \in { "ok", "none", "fault" } :
    \E n \in 0..MaxSegments :
    \E segs \in [ 1..n -> { seg \in [ faulting : V5SegmentAccessors \cup V4SegmentAccessors \cup { "" },
                                      fault_class : { "unsupported", "raise" } ] :
                              IsSegment(v, seg) } ] :
        /\ get # "ok" => n = 0
        /\ sketch = [ get |-> get, segments |-> segs ]

InitSketch ==
    /\ extractor \in { "v4", "v5" }
    /\ IsSketch(extractor, sketch_segments)
    /\ pc = "extract"
    /\ doc = EmptyDocument /\ sw_model = "doc"
    /\ feature = 0 /\ creation_order = 0 /\ tree_data = EmptyDict
    /\ features = << >> /\ complete_data = EmptyDict
    /\ feature_index = 0 /\ feature_data = << >> /\ runs = 0 /\ first_run = << >>
    /\ type_name = << >> /\ dispatched = EmptyDict
    /\ session = EmptyDict /\ exit_status = -1
    /\ accessors = EmptyDict /\ attributes = EmptyDict
    /\ entities = << >>
    /\ NoFiles

NextSketch == V4ExtractSketchEntities \/ V5ExtractSketchEntities

SpecSketch == InitSketch /\ [][NextSketch]_vars

(***************************************************************************)
(* main.py and FMDT_v4 connect_to_solidworks                               *)
(*                                                                         *)
(* session describes what the SolidWorks installation answers:             *)
(*   dispatch     win32com.client.Dispatch: "ok" or "fault"                *)
(*   active_doc   sw_app.ActiveDoc: "doc", "None" or "fault"               *)
(*   file_exists  os.path.exists(file_path)                                *)
(*   open_doc     sw_app.OpenDoc6: "doc", "None" or "fault"                *)
(* GetTitle() of the document raises when doc.meta_fault = "GetTitle".     *)
(***************************************************************************)
\* connect_to_solidworks(file_path) ("" : no path) called while self.sw_model
\* is `model`: the returned flag and self.sw_model afterwards
V4ConnectToSolidworks(s, d, file_path, model) ==
    LET connected(m) ==
            IF m = "None" THEN [result |-> FALSE, sw_model |-> m]
            ELSE IF d.meta_fault = "GetTitle"
            THEN [result |-> FALSE, sw_model |-> m]
            ELSE [result |-> TRUE, sw_model |-> m]
        failed == [result |-> FALSE, sw_model |-> model]
    IN  IF s.dispatch = "fault" THEN failed
        ELSE IF file_path = ""
        THEN IF s.active_doc = "fault" THEN failed ELSE connected(s.active_doc)
        ELSE IF ~ s.file_exists THEN failed
        ELSE IF s.open_doc = "fault" THEN failed
        ELSE connected(s.open_doc)

MainExcept_Bare(exception) == TRUE

\* main.py `except Exception as e`: SystemExit derives from BaseException
MainExcept(exception) == exception # "SystemExit"

\* main.py: `if not extractor.connect_to_solidworks(): ... sys.exit(1)`, else
\* control enters extract_complete_tree of the FMDT_v4 extractor
MainConnect ==
    /\ extractor = "main" /\ pc = "start"
    /\ LET c == V4ConnectToSolidworks(session, doc, "", sw_model) IN
       /\ sw_model' = c.sw_model
       /\ IF c.result
          THEN extractor' = "v4" /\ pc' = "start" /\ UNCHANGED exit_status
          ELSE /\ UNCHANGED extractor
               /\ pc' = "exited"
               /\ exit_status' = IF MainExcept("SystemExit") THEN 0 ELSE 1
    /\ UNCHANGED << outside_extraction, doc, feature, creation_order, tree_data, features,
                    complete_data, feature_index, feature_data, runs, first_run,
                    type_name, dispatched, session, accessors, attributes,
                    sketch_segments, entities >>

\* main.py: extract_complete_tree returned and is printed, or raised and the
\* handler prints the exception; the process ends normally
MainReturn ==
    /\ extractor = "v4" /\ session # EmptyDict
    /\ pc \in { "done", "raised" }
    /\ exit_status = -1
    /\ (pc = "raised") => MainExcept("Exception")
    /\ exit_status' = 0
    /\ pc' = "exited"
    /\ UNCHANGED << outside_extraction, doc, extractor, feature, creation_order, tree_data, features,
                    complete_data, feature_index, feature_data, runs, first_run,
                    type_name, dispatched, sw_model, session, accessors,
                    attributes, sketch_segments, entities >>

\* the installations main.py can meet; a document exists only where ActiveDoc
\* answers one
IsSession(s, d) ==
    \E dispatch \in { "ok", "fault" } :
    \E active_doc \in { "doc", "None", "fault" } :
        /\ s = [ dispatch |-> dispatch, active_doc |-> active_doc,
                 file_exists |-> FALSE, open_doc |-> "None" ]
        /\ IF dispatch = "ok" /\ active_doc = "doc"
           THEN IsDocV4(d) ELSE d = EmptyDocument

InitMain ==
    /\ extractor = "main" /\ pc = "start"
    /\ IsSession(session, doc)
    /\ sw_model = "None" /\ exit_status = -1
    /\ feature = 0 /\ creation_order = 0 /\ tree_data = EmptyDict
    /\ features = << >> /\ complete_data = EmptyDict
    /\ feature_index = 0 /\ feature_data = << >> /\ runs = 0 /\ first_run = << >>
    /\ type_name = << >> /\ dispatched = EmptyDict
    /\ accessors = EmptyDict /\ attributes = EmptyDict
    /\ sketch_segments = << >> /\ entities = << >>
    /\ NoFiles

NextMain == MainConnect \/ V4Start \/ V4VisitFeature \/ V4Finish \/ MainReturn

SpecMain == InitMain /\ [][NextMain]_vars

(***************************************************************************)
(* The walks of FMDT_v3 and FMDT_v4 over a document without faults, run to *)
(* their end: the interpreter executes the next step of the one running    *)
(* call whenever there is one, hence weak fairness of the step relation.   *)
(***************************************************************************)
\* a document without faults: any forest (where the walk goes next does not
\* depend on the type of a feature)
IsDocWalk(d) ==
    \E n \in 0..MaxNodes :
      \E p \in Shapes(n), ty \in [1..n -> {Boss}] :
        d = Document(n, p, [i \in 1..n |-> FeatureName(i)], ty,
                     [i \in 1..n |-> "none"], [i \in 1..n |-> FALSE], "")

InitWalk ==
    /\ extractor \in { "v3", "v4" } /\ IsDocWalk(doc) /\ Idle /\ sw_model = "doc"
    /\ type_name = << >> /\ dispatched = EmptyDict

NextWalk == NextV3 \/ NextV4

SpecWalkFair == InitWalk /\ [][NextWalk]_vars /\ WF_vars(NextWalk)

(***************************************************************************)
(* FMDT_v3: the traverser as an object, and batch_analyze_files            *)
(*                                                                         *)
(* A file of the file system is [opens, doc]: how open_document answers    *)
(* for it ("ok", "missing": os.path.exists is False, "none": OpenDoc6      *)
(* returns None, "raise": OpenDoc6 raises) and the document it holds.      *)
(* file_list is [connect, files, paths]: whether connect_to_solidworks     *)
(* succeeds, the file system, and the paths handed to the batch, in order. *)
(***************************************************************************)
RECURSIVE V3TraverseTopLevel(_, _, _, _)
\* traverse_feature_tree: the `while feature is not None` loop from feature f
\* on, feature_data being data; the feature_data the loop leaves behind
V3TraverseTopLevel(d, f, index_before, data) ==
    IF f = 0 THEN data
    ELSE LET index == ToString(index_before + 1)
             info == V3AnalyzeFeatureComprehensive(d, f, 0, index)
             below == V3TraverseSubFeatures(d, GetFirstSubFeature(d, f), 1,
                                            index, 0, V3AppendRecord(data, info))
         IN  IF below.raised \/ d.fault[f] = "next"
             THEN below.appended
             ELSE V3TraverseTopLevel(d, GetNextFeature(d, f), index_before + 1,
                                     below.appended)

\* traverse_feature_tree as one call on a traverser whose sw_model is `model`
\* (a document d or "None") and whose feature_data is data
V3TraverseFeatureTree(model, d, data) ==
    IF model = "None" THEN data
    ELSE IF d.meta_fault = "GetType" THEN data
    ELSE V3TraverseTopLevel(d, FirstFeature(d), 0, data)

\* open_document: the flag returned and self.sw_model afterwards
V3OpenDocument(file, model) ==
    CASE file.opens = "missing" -> [result |-> FALSE, sw_model |-> model]
      [] file.opens = "raise"   -> [result |-> FALSE, sw_model |-> model]
      [] file.opens = "none"    -> [result |-> FALSE, sw_model |-> "None"]
      [] file.opens = "ok"      -> [result |-> TRUE, sw_model |-> "doc"]

\* get_comprehensive_statistics: None without a model, else the counts
V3GetComprehensiveStatistics(model, data) ==
    IF model = "None" THEN None
    ELSE [ total_features |-> Len(data),
           failed_features |->
               Cardinality({ k \in 1..Len(data) : data[k].name = "" }) ]

\* close_model: `if self.sw_model:` CloseDoc(GetTitle()), sw_model = None,
\* feature_data = []; nothing at all without a model
V3CloseModel(model, d, data) ==
    IF model = "None"
    THEN Ok([sw_model |-> "None", feature_data |-> data])
    ELSE IF d.meta_fault = "GetTitle"
    THEN Raises
    ELSE Ok([sw_model |-> "None", feature_data |-> << >>])

BatchAnalyzeFile_Shared(file, model, data) ==
    LET open == V3OpenDocument(file, model) IN
    IF ~ open.result
    THEN Ok([sw_model |-> open.sw_model, feature_data |-> data, entry |-> None])
    ELSE LET traversed == V3TraverseFeatureTree(open.sw_model, file.doc, data)
             stats == V3GetComprehensiveStatistics(open.sw_model, traversed)
         IN  Ok([ sw_model |-> "None", feature_data |-> traversed,
                  entry |-> [features |-> traversed, statistics |-> stats] ])

\* batch_analyze_files: the body of `for file_path in file_list` on a
\* traverser in state (model, data): the traverser afterwards and the entry
\* stored in results (None: no entry), or the exception of close_model
BatchAnalyzeFile(file, model, data) ==
    LET open == V3OpenDocument(file, model) IN
    IF ~ open.result
    THEN Ok([sw_model |-> open.sw_model, feature_data |-> data, entry |-> None])
    ELSE LET traversed == V3TraverseFeatureTree(open.sw_model, file.doc, << >>)
             stats == V3GetComprehensiveStatistics(open.sw_model, traversed)
             closed == V3CloseModel(open.sw_model, file.doc, traversed)
         IN  IF closed.kind = "raise" THEN Raises
             ELSE Ok([ sw_model |-> closed.data.sw_model,
                       feature_data |-> closed.data.feature_data,
                       entry |-> [features |-> traversed, statistics |-> stats] ])

\* batch_analyze_files(file_list) up to the loop: a fresh traverser, and
\* `return None` when connect_to_solidworks fails
BatchStart ==
    /\ extractor = "v3" /\ pc = "batch"
    /\ IF file_list.connect
       THEN results' = EmptyDict /\ pc' = "files"
       ELSE results' = None /\ pc' = "done"
    /\ sw_model' = "None" /\ feature_data' = << >> /\ feature_index' = 0
    /\ UNCHANGED << session, exit_status, accessors, attributes,
                    sketch_segments, entities, doc, extractor, feature,
                    creation_order, tree_data, features, complete_data, runs,
                    first_run, type_name, dispatched, file_list, statistics,
                    output_file, written, returned, guide_content >>

\* the end of one iteration: the traverser and results as the iteration left
\* them; an exception of close_model leaves batch_analyze_files
BatchRecord(path, step) ==
    IF step.kind = "raise"
    THEN pc' = "raised" /\ UNCHANGED << sw_model, feature_data, results >>
    ELSE /\ sw_model' = step.data.sw_model
         /\ feature_data' = step.data.feature_data
         /\ results' = IF step.data.entry = None THEN results
                       ELSE DictSet(results, path, step.data.entry)
         /\ pc' = pc

\* one iteration of `for file_path in file_list`
BatchVisitFile ==
    /\ extractor = "v3" /\ pc = "files"
    /\ feature_index < Len(file_list.paths)
    /\ BatchRecord(file_list.paths[feature_index + 1],
                   BatchAnalyzeFile(file_list.files[file_list.paths[feature_index + 1]],
                                    sw_model, feature_data))
    /\ feature_index' = feature_index + 1
    /\ UNCHANGED << session, exit_status, accessors, attributes,
                    sketch_segments, entities, doc, extractor, feature,
                    creation_order, tree_data, features, complete_data, runs,
                    first_run, type_name, dispatched, file_list, statistics,
                    output_file, written, returned, guide_content >>

\* the loop ended: `return results`
BatchFinish ==
    /\ extractor = "v3" /\ pc = "files"
    /\ feature_index = Len(file_list.paths)
    /\ pc' = "done"
    /\ UNCHANGED << outside_walk, doc, extractor, feature, creation_order,
                    tree_data, features, complete_data, feature_index,
                    feature_data, runs, first_run, type_name, dispatched,
                    file_list, results, statistics, output_file, written,
                    returned, guide_content >>

File1 == "File1.SLDPRT"
File2 == "File2.SLDPRT"
Paths == { File1, File2 }

\* the documents a file can hold: small forests whose feature names carry
\* the path of the file
BatchDocs(path) ==
    UNION { { Document(n, p, [i \in 1..n |-> path \o ":" \o FeatureName(i)],
                       [i \in 1..n |-> Boss], fl, [i \in 1..n |-> FALSE], mf) :
                p \in Shapes(n), fl \in FaultPatterns(n, {"next"}),
                mf \in { "", "GetTitle" } } :
            n \in 0..(MaxNodes - 1) }

MissingFile == [opens |-> "missing", doc |-> EmptyDocument]

Files(path) ==
    { [opens |-> o, doc |-> EmptyDocument] : o \in {"missing", "none", "raise"} }
    \cup { [opens |-> "ok", doc |-> d] : d \in BatchDocs(path) }

\* any list of at most MaxFiles paths, repeats allowed, over any file system
IsFileList(fl) ==
    \E connect \in BOOLEAN, n \in 0..MaxFiles :
      \E paths \in [1..n -> Paths] :
        \E f1 \in IF \E k \in 1..n : paths[k] = File1
                  THEN Files(File1) ELSE { MissingFile },
           f2 \in IF \E k \in 1..n : paths[k] = File2
                  THEN Files(File2) ELSE { MissingFile } :
          fl = [ connect |-> connect, paths |-> paths,
                 files |-> [p \in Paths |-> IF p = File1 THEN f1 ELSE f2] ]

InitBatch ==
    /\ extractor = "v3" /\ pc = "batch"
    /\ doc = EmptyDocument /\ sw_model = "None"
    /\ IsFileList(file_list)
    /\ results = EmptyDict /\ statistics = None
    /\ output_file = EmptyDict /\ written = << >> /\ returned = None
    /\ guide_content = << >>
    /\ session = EmptyDict /\ exit_status = -1
    /\ accessors = EmptyDict /\ attributes = EmptyDict
    /\ sketch_segments = << >> /\ entities = << >>
    /\ feature = 0 /\ creation_order = 0 /\ tree_data = EmptyDict
    /\ features = << >> /\ complete_data = EmptyDict
    /\ feature_index = 0 /\ feature_data = << >> /\ runs = 0 /\ first_run = << >>
    /\ type_name = << >> /\ dispatched = EmptyDict

NextBatch == BatchStart \/ BatchVisitFile \/ BatchFinish

SpecBatch == InitBatch /\ [][NextBatch]_vars

(***************************************************************************)
(* FMDT_v4: save_to_json                                                   *)
(*                                                                         *)
(* A Python value at a leaf of the data is [type, value]: str and int are  *)
(* JSON-native, a COM object and a datetime are not. complete_data is the  *)
(* data handed to save_to_json; output_file is the call's environment:     *)
(* whether output_file was given and its name, what GetTitle() answers     *)
(* ("fault": raises) and whether the file can be opened and written.       *)
(***************************************************************************)
JsonNative == { "str", "int" }

\* str(value)
Str(v) ==
    CASE v.type = "COMObject" -> "<COMObject " \o v.value \o ">"
      [] v.type = "datetime"  -> "2024-01-01 " \o v.value
      [] OTHER                -> v.value

JsonDefault_Absent(v) == Raises

\* json.dump(..., default=str): the encoder's call for a value it cannot
\* serialize
JsonDefault(v) == Ok(Str(v))

\* the JSON value written for one leaf
JsonEncode(v) ==
    IF v.type = "str" THEN Ok([json |-> "string", text |-> v.value])
    ELSE IF v.type = "int" THEN Ok([json |-> "number", text |-> v.value])
    ELSE LET coerced == JsonDefault(v) IN
         IF coerced.kind = "raise" THEN Raises
         ELSE Ok([json |-> "string", text |-> coerced.data])

\* json.dump(data, f, indent=2, ensure_ascii=False, default=str)
JsonDump(data) ==
    LET info == JsonEncode(data.document_info)
        tree == [i \in DOMAIN data.feature_tree |-> JsonEncode(data.feature_tree[i])]
    IN  IF info.kind = "raise" \/ \E i \in DOMAIN tree : tree[i].kind = "raise"
        THEN Raises
        ELSE Ok([ document_info |-> info.data,
                  feature_tree |-> [i \in DOMAIN tree |-> tree[i].data] ])

\* str.replace('.', '_') on a title given by its characters
ReplaceDots(title) ==
    [i \in DOMAIN title |-> IF title[i] = "." THEN "_" ELSE title[i]]

RECURSIVE JoinChars(_)
JoinChars(chars) ==
    IF chars = << >> THEN "" ELSE chars[1] \o JoinChars(Tail(chars))

\* save_to_json: the name of the file written
V4OutputFileName(out) ==
    IF out.given THEN Ok(out.name)
    ELSE IF out.title = "fault" THEN Raises
    ELSE Ok(JoinChars(ReplaceDots(out.title)) \o "_feature_tree.json")

\* save_to_json(data, output_file)
V4SaveToJson ==
    /\ extractor = "v4" /\ pc = "save"
    /\ LET name == V4OutputFileName(output_file)
           dumped == JsonDump(complete_data)
       IN  IF name.kind = "raise"
           THEN returned' = Raises /\ UNCHANGED written
           ELSE IF ~ output_file.writable
           THEN returned' = Ok("") /\ UNCHANGED written
           ELSE IF dumped.kind = "raise"
           THEN /\ returned' = Ok("")
                /\ written' = DictSet(written, name.data, [truncated |-> TRUE])
           ELSE /\ returned' = name
                /\ written' = DictSet(written, name.data, dumped.data)
    /\ pc' = "done"
    /\ UNCHANGED << outside_walk, doc, extractor, feature, creation_order,
                    tree_data, features, complete_data, feature_index,
                    feature_data, runs, first_run, type_name, dispatched,
                    file_list, results, statistics, output_file,
                    guide_content >>

PythonValues ==
    { [type |-> "str", value |-> "Boss-Extrude1"],
      [type |-> "int", value |-> "3"],
      [type |-> "COMObject", value |-> "IFeature"],
      [type |-> "datetime", value |-> "12:00:00"] }

Titles == { << "P", "1" >>, << "P", "1", ".", "S" >>, << "a", ".", "b", ".", "c" >> }

IsSaveCall(data, out) ==
    /\ \E info \in PythonValues, n \in 0..MaxValues :
         \E tree \in [1..n -> PythonValues] :
           data = [document_info |-> info, feature_tree |-> tree]
    /\ \E writable \in BOOLEAN :
         \/ out = [given |-> TRUE, name |-> "out.json", title |-> "fault",
                   writable |-> writable]
         \/ out = [given |-> FALSE, name |-> "", title |-> "fault",
                   writable |-> writable]
         \/ \E title \in Titles :
              out = [given |-> FALSE, name |-> "", title |-> title,
                     writable |-> writable]

InitSave ==
    /\ extractor = "v4" /\ pc = "save"
    /\ doc = EmptyDocument /\ sw_model = "doc"
    /\ IsSaveCall(complete_data, output_file)
    /\ file_list = << >> /\ results = EmptyDict /\ statistics = None
    /\ written = EmptyDict /\ returned = None /\ guide_content = << >>
    /\ session = EmptyDict /\ exit_status = -1
    /\ accessors = EmptyDict /\ attributes = EmptyDict
    /\ sketch_segments = << >> /\ entities = << >>
    /\ feature = 0 /\ creation_order = 0 /\ tree_data = EmptyDict
    /\ features = << >>
    /\ feature_index = 0 /\ feature_data = << >> /\ runs = 0 /\ first_run = << >>
    /\ type_name = << >> /\ dispatched = EmptyDict

NextSave == V4SaveToJson

SpecSave == InitSave /\ [][NextSave]_vars

(***************************************************************************)
(* FMDT_v3: the public methods of one traverser, called in any order       *)
(*                                                                         *)
(* pc is "new" until the first call, "opened" after an open_document that  *)
(* returned True and "closed" after a close_model that returned; runs      *)
(* counts the calls. doc is the document the last OpenDoc6 answered.       *)
(***************************************************************************)
V3SessionFrame ==
    UNCHANGED << extractor, feature, creation_order, tree_data, features,
                 complete_data, feature_index, first_run, type_name,
                 dispatched, session, exit_status, accessors, attributes,
                 sketch_segments, entities, file_list, results, output_file,
                 written, returned, guide_content >>

\* traverser.open_document(file_path)
V3SessionOpen ==
    /\ extractor = "v3session" /\ runs < MaxCalls
    /\ \E file \in Files(File1) :
         LET open == V3OpenDocument(file, sw_model) IN
         /\ sw_model' = open.sw_model
         /\ doc' = IF file.opens = "ok" THEN file.doc
                   ELSE IF open.sw_model = "None" THEN EmptyDocument ELSE doc
         /\ pc' = IF open.result THEN "opened" ELSE pc
    /\ runs' = runs + 1
    /\ UNCHANGED << feature_data, statistics >>
    /\ V3SessionFrame

\* traverser.traverse_feature_tree()
V3SessionTraverse ==
    /\ extractor = "v3session" /\ runs < MaxCalls
    /\ feature_data' = V3TraverseFeatureTree(sw_model, doc, feature_data)
    /\ runs' = runs + 1
    /\ UNCHANGED << doc, sw_model, pc, statistics >>
    /\ V3SessionFrame

\* traverser.get_comprehensive_statistics()
V3SessionStatistics ==
    /\ extractor = "v3session" /\ runs < MaxCalls
    /\ statistics' = V3GetComprehensiveStatistics(sw_model, feature_data)
    /\ runs' = runs + 1
    /\ UNCHANGED << doc, sw_model, pc, feature_data >>
    /\ V3SessionFrame

\* traverser.close_model(); when GetTitle() raises nothing has been assigned
V3SessionClose ==
    /\ extractor = "v3session" /\ runs < MaxCalls
    /\ LET closed == V3CloseModel(sw_model, doc, feature_data) IN
       IF closed.kind = "raise"
       THEN UNCHANGED << sw_model, feature_data, pc >>
       ELSE /\ sw_model' = closed.data.sw_model
            /\ feature_data' = closed.data.feature_data
            /\ pc' = "closed"
    /\ runs' = runs + 1
    /\ UNCHANGED << doc, statistics >>
    /\ V3SessionFrame

InitSession ==
    /\ extractor = "v3session" /\ pc = "new"
    /\ doc = EmptyDocument /\ sw_model = "None"
    /\ NoSession
    /\ feature = 0 /\ creation_order = 0 /\ tree_data = EmptyDict
    /\ features = << >> /\ complete_data = EmptyDict
    /\ feature_index = 0 /\ feature_data = << >> /\ runs = 0 /\ first_run = << >>
    /\ type_name = << >> /\ dispatched = EmptyDict

NextSession ==
    V3SessionOpen \/ V3SessionTraverse \/ V3SessionStatistics \/ V3SessionClose

SpecSession == InitSession /\ [][NextSession]_vars

(***************************************************************************)
(* FMDT_v3: the analysis files and create_feature_recreation_guide         *)
(*                                                                         *)
(* A JSON document is an array [json |-> "array", items] or an object      *)
(* [json |-> "object", members]. written maps a file name to the document  *)
(* the file holds.                                                         *)
(***************************************************************************)
JsonObject(members) == [json |-> "object", members |-> members]

JsonArray(items) == [json |-> "array", items |-> items]

\* json.dump of a list of feature records: an array of objects
JsonRecords(data) == JsonArray([k \in DOMAIN data |-> JsonObject(data[k])])

AnalysisFile == "solidworks_feature_analysis.json"
BatchFile == "File1_analysis.json"
GuideFile == "part_recreation_guide.md"

GuideFrame ==
    UNCHANGED << outside_walk, doc, extractor, feature, creation_order,
                 tree_data, features, complete_data, feature_index,
                 feature_data, runs, first_run, type_name, dispatched,
                 file_list, results, statistics >>

\* _export_to_json: feature_data itself is dumped; a failure of open or of
\* the write is printed
V3ExportToJson ==
    /\ extractor = "guide" /\ pc = "export"
    /\ \E writable \in BOOLEAN :
         written' = IF writable
                    THEN DictSet(written, AnalysisFile, JsonRecords(feature_data))
                    ELSE written
    /\ output_file' = AnalysisFile
    /\ pc' = "exported"
    /\ UNCHANGED << returned, guide_content >>
    /\ GuideFrame

\* batch_analyze_files, the per-file analysis: an object with file_path,
\* features and statistics
V3BatchExport ==
    /\ extractor = "guide" /\ pc = "export"
    /\ written' = DictSet(written, BatchFile,
                     JsonObject([ file_path |-> File1,
                                  features |-> JsonRecords(feature_data),
                                  statistics |-> JsonObject(
                                      V3GetComprehensiveStatistics("doc", feature_data)) ]))
    /\ output_file' = BatchFile
    /\ pc' = "exported"
    /\ UNCHANGED << returned, guide_content >>
    /\ GuideFrame

\* data.get('features', []): only a dict has get
JsonGetFeatures(data) ==
    IF data.json = "array" THEN Raises
    ELSE IF "features" \in DOMAIN data.members THEN Ok(data.members.features.items)
    ELSE Ok(<< >>)

RECURSIVE GuideSteps(_, _, _)
\* the `for feature in features` loop from position k on: the step headings
GuideSteps(items, k, step_counter) ==
    IF k > Len(items) THEN << >>
    ELSE IF items[k].members.indent_level = 0
    THEN << "## Step " \o ToString(step_counter) \o ": " \o items[k].members.name >>
         \o GuideSteps(items, k + 1, step_counter + 1)
    ELSE GuideSteps(items, k + 1, step_counter)

\* create_feature_recreation_guide(json_file_path)
CreateFeatureRecreationGuide ==
    /\ extractor = "guide" /\ pc = "exported"
    /\ LET got == IF output_file \notin DOMAIN written THEN Raises
                  ELSE JsonGetFeatures(written[output_file])
       IN  IF got.kind = "raise"
           THEN returned' = ReturnsNone /\ UNCHANGED << guide_content, written >>
           ELSE /\ guide_content' = GuideSteps(got.data, 1, 1)
                /\ written' = DictSet(written, GuideFile, guide_content')
                /\ returned' = Ok(GuideFile)
    /\ pc' = "done"
    /\ UNCHANGED output_file
    /\ GuideFrame

\* a traverser that has finished one traversal of a document
InitGuide ==
    /\ extractor = "guide" /\ pc = "export"
    /\ sw_model = "doc"
    /\ \E d \in BatchDocs(File1) :
         /\ doc = d
         /\ feature_data = V3TraverseFeatureTree("doc", d, << >>)
    /\ file_list = << >> /\ results = EmptyDict /\ statistics = None
    /\ output_file = "" /\ written = EmptyDict /\ returned = None
    /\ guide_content = << >>
    /\ session = EmptyDict /\ exit_status = -1
    /\ accessors = EmptyDict /\ attributes = EmptyDict
    /\ sketch_segments = << >> /\ entities = << >>
    /\ feature = 0 /\ creation_order = 0 /\ tree_data = EmptyDict
    /\ features = << >> /\ complete_data = EmptyDict
    /\ feature_index = 0 /\ runs = 1 /\ first_run = << >>
    /\ type_name = << >> /\ dispatched = EmptyDict

NextGuide == V3ExportToJson \/ V3BatchExport \/ CreateFeatureRecreationGuide

SpecGuide == InitGuide /\ [][NextGuide]_vars

(***************************************************************************)
(* connect_to_solidworks of FMDT_v4 and of ApplicationSession, called any  *)
(* number of times on one object                                           *)
(*                                                                         *)
(* A document is known by where it came from: "ActiveDoc" or the path      *)
(* OpenDoc6 was given. session is the last call: its file_path ("" : none) *)
(* and what the installation answered; returned is what the call returned: *)
(* whether it is truthy and, for ApplicationSession, the dict.             *)
(***************************************************************************)
\* ApplicationSession.connect_to_solidworks: the code of FMDT_v4 except that
\* success returns {'app': ..., 'model': ...}
SessionConnectToSolidworks(s, d, file_path, model) ==
    LET c == V4ConnectToSolidworks(s, d, file_path, model) IN
    [ result |-> IF c.result
                 THEN [truthy |-> TRUE,
                       value |-> [app |-> "SldWorks.Application", model |-> c.sw_model]]
                 ELSE [truthy |-> FALSE, value |-> EmptyDict],
      sw_model |-> c.sw_model ]

ConnectFrame ==
    UNCHANGED << extractor, pc, feature, creation_order, tree_data, features,
                 complete_data, feature_index, feature_data, first_run,
                 type_name, dispatched, exit_status, accessors, attributes,
                 sketch_segments, entities, file_list, results, statistics,
                 output_file, written, guide_content >>

\* what one call can be given and can meet; OpenDoc6 answers the document of
\* the path it was given, None, or raises
ConnectInputs ==
    { s \in [ dispatch : { "ok", "fault" },
              active_doc : { "ActiveDoc", "None", "fault" },
              file_exists : BOOLEAN, open_doc : { "None", "fault" } \cup Paths,
              file_path : { "" } \cup Paths ] :
        s.open_doc \in Paths => s.open_doc = s.file_path }

\* extractor.connect_to_solidworks(file_path) on a FMDT_v4 extractor
V4Connect ==
    /\ extractor = "connect_v4" /\ runs < MaxCalls
    /\ \E s \in ConnectInputs, mf \in { "", "GetTitle" } :
         LET d == [EmptyDocument EXCEPT !.meta_fault = mf] IN
         /\ LET c == V4ConnectToSolidworks(s, d, s.file_path, sw_model) IN
            /\ sw_model' = c.sw_model
            /\ returned' = [truthy |-> c.result, value |-> EmptyDict]
         /\ session' = s
         /\ doc' = d
    /\ runs' = runs + 1
    /\ ConnectFrame

\* session.connect_to_solidworks(file_path) on an ApplicationSession
SessionConnect ==
    /\ extractor = "connect_session" /\ runs < MaxCalls
    /\ \E s \in ConnectInputs, mf \in { "", "GetTitle" } :
         LET d == [EmptyDocument EXCEPT !.meta_fault = mf] IN
         /\ LET c == SessionConnectToSolidworks(s, d, s.file_path, sw_model) IN
            /\ sw_model' = c.sw_model
            /\ returned' = c.result
         /\ session' = s
         /\ doc' = d
    /\ runs' = runs + 1
    /\ ConnectFrame

InitConnect ==
    /\ extractor \in { "connect_v4", "connect_session" } /\ pc = "start"
    /\ doc = EmptyDocument /\ sw_model = "None"
    /\ NoSession
    /\ feature = 0 /\ creation_order = 0 /\ tree_data = EmptyDict
    /\ features = << >> /\ complete_data = EmptyDict
    /\ feature_index = 0 /\ feature_data = << >> /\ runs = 0 /\ first_run = << >>
    /\ type_name = << >> /\ dispatched = EmptyDict

NextConnect == V4Connect \/ SessionConnect

SpecConnect == InitConnect /\ [][NextConnect]_vars

(***************************************************************************)
(* Properties                                                              *)
(***************************************************************************)
TopLevel(d) == Siblings(d, 0)

\* the top-level feature list an extractor run has produced
ResultList ==
    IF extractor = "v4" THEN complete_data.feature_tree
    ELSE tree_data.creation_sequence

ResultNames == { ResultList[k].name : k \in 1..Len(ResultList) }

\* exactly one top-level feature f whose extraction raises (IsSuppressed
\* faults) and no other fault anywhere in the document
OnlyFaultIs(d, f) ==
    /\ f \in TopLevel(d) /\ d.fault[f] = "suppressed"
    /\ \A i \in 1..d.n : i # f => d.fault[i] = "none"

\* C1: if extraction of exactly one of N top-level features raises a fault,
\* the feature list returned by FMDT_v4 / FMDT_v5 extract_feature_tree still
\* has N entries and one of them carries an error marker.
C1_FaultInjectionKeepsAllEntries ==
    (/\ extractor \in {"v4", "v5"}
     /\ pc = "done"
     /\ \E f \in 1..doc.n : OnlyFaultIs(doc, f))
    => /\ Len(ResultList) = Cardinality(TopLevel(doc))
       /\ \E k \in 1..Len(ResultList) : "error" \in DOMAIN ResultList[k]

\* C2: a top-level feature whose extraction faults in any accessor (its Name
\* accessor included) never truncates the walk of FMDT_v4 / FMDT_v5: every
\* fault-free top-level feature is in the returned list.
C2_FaultyFeatureNeverTruncatesWalk ==
    (/\ extractor \in {"v4", "v5"}
     /\ pc = "done"
     /\ \A i \in 1..doc.n : doc.fault[i] \in {"none", "name", "suppressed"}
     /\ \A h \in 1..doc.n : doc.fault[h] # "none" => h \in TopLevel(doc))
    => \A j \in TopLevel(doc) :
          doc.fault[j] = "none" => doc.name[j] \in ResultNames

\* C3: the creation_order values of creation_sequence (FMDT_v5) are
\* 0, 1, 2, ... in list order, whatever features failed.
C3_CreationOrderDense ==
    (extractor = "v5" /\ pc # "start")
    => \A k \in 1..Len(tree_data.creation_sequence) :
          tree_data.creation_sequence[k].creation_order = k - 1

\* a failed feature lies before a recorded one
C3_Witness ==
    /\ extractor = "v5" /\ pc = "done"
    /\ Len(tree_data.creation_sequence) >= 2
    /\ \E i, j \in TopLevel(doc) :
          i < j /\ doc.fault[i] = "suppressed" /\ doc.fault[j] = "none"

\* the feature of a document of distinct names that has the name nm
FeatureNamed(d, nm) == CHOOSE i \in 1..d.n : d.name[i] = nm

RECURSIVE InNativeOrder(_, _, _)
\* the nodes of list are sub-features of p, in increasing native position,
\* all of them when the document has no fault, and so are their children
InNativeOrder(d, list, p) ==
    /\ \A k \in 1..Len(list) :
          /\ \E i \in Siblings(d, p) : d.name[i] = list[k].name
          /\ k > 1 => FeatureNamed(d, list[k - 1].name) < FeatureNamed(d, list[k].name)
          /\ InNativeOrder(d, list[k].children, FeatureNamed(d, list[k].name))
    /\ (\A i \in 1..d.n : d.fault[i] = "none")
          => Len(list) = Cardinality(Siblings(d, p))

\* C4: feature_tree of FMDT_v4 is in the native top-level order and every
\* children list in the native sub-feature order, at every depth, without
\* reordering or duplicates.
C4_NativeOrder ==
    (extractor = "v4" /\ pc = "done")
    => InNativeOrder(doc, complete_data.feature_tree, 0)

\* a fault-free document with two top-level features and a feature with
\* two sub-features or a sub-sub-feature
C4_Witness ==
    /\ extractor = "v4" /\ pc = "done"
    /\ \A i \in 1..doc.n : doc.fault[i] = "none"
    /\ Len(complete_data.feature_tree) >= 2
    /\ \E k \in 1..Len(complete_data.feature_tree) :
          Len(complete_data.feature_tree[k].children) >= 1

\* the closed set of categories
Categories ==
    { "sketch", "extrude", "cut", "revolve", "fillet", "chamfer", "hole",
      "pattern", "mirror", "shell", "draft", "rib", "loft", "sweep",
      "reference_plane", "axis", "mate", "generic" }

\* C5: every record of FMDT_v3 feature_data carries geometry_info['type'],
\* one of the closed set of categories.
C5_CategoryAlwaysPresent ==
    extractor = "v3"
    => \A k \in 1..Len(feature_data) :
          /\ "type" \in DOMAIN feature_data[k].geometry_info
          /\ feature_data[k].geometry_info.type \in Categories

\* the categories in priority order with the keywords that select them
PriorityOrder ==
    << [category |-> "sketch", keywords |-> {<<"s", "k", "e", "t", "c", "h">>, <<"p", "r", "o", "f", "i", "l", "e", "f", "e", "a", "t", "u", "r", "e">>}],
       [category |-> "extrude", keywords |-> {<<"e", "x", "t", "r", "u", "d", "e">>, <<"b", "o", "s", "s">>}],
       [category |-> "cut", keywords |-> {<<"c", "u", "t">>}],
       [category |-> "revolve", keywords |-> {<<"r", "e", "v", "o", "l", "v", "e">>}],
       [category |-> "fillet", keywords |-> {<<"f", "i", "l", "l", "e", "t">>}],
       [category |-> "chamfer", keywords |-> {<<"c", "h", "a", "m", "f", "e", "r">>}],
       [category |-> "hole", keywords |-> {<<"h", "o", "l", "e">>}],
       [category |-> "pattern", keywords |-> {<<"p", "a", "t", "t", "e", "r", "n">>}],
       [category |-> "mirror", keywords |-> {<<"m", "i", "r", "r", "o", "r">>}],
       [category |-> "shell", keywords |-> {<<"s", "h", "e", "l", "l">>}],
       [category |-> "draft", keywords |-> {<<"d", "r", "a", "f", "t">>}],
       [category |-> "rib", keywords |-> {<<"r", "i", "b">>}],
       [category |-> "loft", keywords |-> {<<"l", "o", "f", "t">>}],
       [category |-> "sweep", keywords |-> {<<"s", "w", "e", "e", "p">>}],
       [category |-> "reference_plane", keywords |-> {<<"p", "l", "a", "n", "e">>}],
       [category |-> "axis", keywords |-> {<<"a", "x", "i", "s">>}],
       [category |-> "mate", keywords |-> {<<"m", "a", "t", "e">>}] >>

\* the positions of PriorityOrder with a keyword occurring in s, case-insensitively
Matching(s) ==
    { c \in 1..Len(PriorityOrder) :
        \E kw \in PriorityOrder[c].keywords : Contains(kw, Lower(s)) }

HighestPriorityCategory(s) ==
    IF Matching(s) = {} THEN "generic" ELSE PriorityOrder[Min(Matching(s))].category

\* C6: FMDT_v3 _analyze_feature_by_type dispatches a raw type string to the
\* analyser of the highest-priority category with a keyword occurring in it
\* case-insensitively, and to generic when none occurs.
C6_PriorityDispatch ==
    (extractor = "classify" /\ pc # "start")
    => dispatched.v3 = HighestPriorityCategory(type_name)

\* a type name with keywords of several categories, one not in lower case
C6_Witness ==
    /\ extractor = "classify" /\ pc = "done"
    /\ Cardinality(Matching(type_name)) >= 2
    /\ Lower(type_name) # type_name
    /\ dispatched.v3 = "cut"

\* the category a branch of the JSON extractors stands for
BranchCategory(b) == IF b = "none" THEN "generic" ELSE b

\* C7: the type-specific dispatch of FMDT_v4 and FMDT_v5 agrees with the
\* FMDT_v3 classifier on every type string.
C7_ExtractorsAgreeWithClassifier ==
    (extractor = "classify" /\ pc = "done")
    => /\ BranchCategory(dispatched.v4) = dispatched.v3
       /\ BranchCategory(dispatched.v5) = dispatched.v3

\* names, types and indices of the records, in order
Structure(data) ==
    [k \in 1..Len(data) |->
        << data[k].index, data[k].name, data[k].type, data[k].indent_level >>]

\* C8: a second traverse_feature_tree on the same traverser leaves
\* feature_data identical in structure to feature_data after the first run.
C8_RerunIdempotent ==
    (extractor = "v3" /\ pc = "done" /\ runs = 2)
    => Structure(feature_data) = Structure(first_run)

V5Keys ==
    { "document_type", "creation_sequence", "feature_relationships",
      "sketch_data", "reference_geometry", "material_properties",
      "configurations" }

\* C9: for a document with zero features FMDT_v5 extract_feature_tree returns
\* an empty creation_sequence with every document-level field present and
\* non-null, and FMDT_v4 extract_complete_tree (its document accessors being
\* readable) returns an empty feature_tree, feature_count 0 and a non-null
\* document_info.
C9_EmptyDocument ==
    /\ (extractor = "v5" /\ pc = "done" /\ doc.n = 0)
       => /\ V5Keys \subseteq DOMAIN tree_data
          /\ Len(tree_data.creation_sequence) = 0
          /\ tree_data.document_type \in {"part", "assembly", "drawing", "unknown"}
          /\ tree_data.feature_relationships # None
          /\ tree_data.sketch_data # None
          /\ tree_data.material_properties # None
          /\ Len(tree_data.reference_geometry) >= 0
          /\ Len(tree_data.configurations) >= 0
    /\ (extractor = "v4" /\ doc.n = 0 /\ doc.meta_fault = "")
       => /\ pc # "raised"
          /\ pc = "done"
             => /\ Len(complete_data.feature_tree) = 0
                /\ complete_data.feature_count = 0
                /\ complete_data.document_info # None

\* the empty document has been extracted while its metadata accessors fault
C9_Witness ==
    /\ extractor = "v5" /\ pc = "done" /\ doc.n = 0 /\ doc.meta_fault # ""

\* C10: every key of feature_relationships (FMDT_v5) is the name of a node
\* of creation_sequence.
C10_RelationshipKeysAreNodes ==
    (extractor = "v5" /\ pc # "start")
    => DOMAIN tree_data.feature_relationships
          \subseteq { tree_data.creation_sequence[k].name :
                         k \in 1..Len(tree_data.creation_sequence) }

\* a recorded dependency names a feature that failed and is no key
C10_Witness ==
    /\ extractor = "v5" /\ pc = "done"
    /\ \E key \in DOMAIN tree_data.feature_relationships :
          \E i \in 1..Len(tree_data.feature_relationships[key]) :
             /\ tree_data.feature_relationships[key][i]
                   \notin DOMAIN tree_data.feature_relationships
             /\ tree_data.feature_relationships[key][i] \notin ResultNames

\* the accessors of the feature under extraction that fault
FaultingKeys == { k \in DOMAIN accessors.attr : accessors.attr[k] = "fault" }

\* C11: in the category-specific extractors of FMDT_v4, when exactly one
\* accessor of the feature's definition faults, every other attribute of the
\* category is still present in the returned mapping.
C11_OneFaultOmitsOnlyThatAttribute ==
    ( /\ extractor = "v4" /\ pc = "done"
      /\ accessors.definition = "ok"
      /\ Cardinality(FaultingKeys) = 1 )
    => /\ attributes.kind = "ok"
       /\ (AttributeKeys("v4", accessors.category) \ FaultingKeys)
              \subseteq DOMAIN attributes.data

\* every accessor of the feature under extraction faults
EveryAccessorFaults ==
    /\ accessors.definition = "fault"
    /\ accessors.type_name = "fault"
    /\ \A k \in DOMAIN accessors.attr : accessors.attr[k] = "fault"

\* C12: no category-specific extractor of FMDT_v4 or FMDT_v5 propagates a
\* fault, and for a feature whose every accessor faults each of them returns
\* the empty mapping.
C12_ExtractorsNeverPropagate ==
    (extractor \in { "v4", "v5" } /\ pc = "done")
    => /\ attributes.kind = "ok"
       /\ EveryAccessorFaults => attributes.data = EmptyDict

C12_Witness ==
    /\ extractor = "v5" /\ pc = "done"
    /\ accessors.category = "hole"
    /\ accessors.fault_class = "raise"
    /\ EveryAccessorFaults
    /\ attributes = Ok(EmptyDict)

\* C13: _extract_sketch_entities returns exactly one entry per native sketch
\* segment, in native order: a segment with an unavailable or faulting accessor
\* still contributes an entry at its own position and the later segments keep
\* theirs.
C13_OneEntryPerSegment ==
    (pc = "done" /\ sketch_segments.get = "ok")
    => /\ Len(entities) = Len(sketch_segments.segments)
       /\ \A i \in 1..Len(entities) : entities[i].segment = i

\* C14: in FMDT_v4 extract_complete_tree a fault while retrieving one
\* document-level field (document type, title, path, units, SolidWorks
\* version, materials, custom properties) never keeps the document from being
\* returned: the call does not raise, and the returned document carries its
\* document_info, its feature tree and the other fields.
C14_MetadataFieldsIsolated ==
    (extractor = "v4" /\ doc.meta_fault \in V4DocumentAccessors)
    => /\ pc # "raised"
       /\ pc = "done"
          => { "document_info", "feature_tree", "materials",
               "custom_properties", "feature_count" } \subseteq DOMAIN complete_data

\* C15: FMDT_v5 extract_feature_tree retrieves reference_geometry,
\* material_properties and configurations independently of the walk: whatever
\* faults during the walk, the returned document carries what the model
\* supplies for them, never the empty defaults.
C15_DocumentContextSurvivesWalkFault ==
    (extractor = "v5" /\ pc = "done" /\ sw_model = "doc" /\ doc.meta_fault = "")
    => /\ tree_data.reference_geometry = V5ExtractReferenceGeometry(doc)
       /\ tree_data.material_properties = V5ExtractMaterialInfo(doc)
       /\ tree_data.configurations = V5ExtractConfigurations(doc)

\* C17: FMDT_v5 extract_feature_tree called while sw_model is None surfaces
\* the connection fault to its caller: it never returns a document.
C17_NoDocumentWithoutConnection ==
    ~ (extractor = "v5" /\ sw_model = "None" /\ pc = "done")

\* what connect_to_solidworks() answers to main.py in this run
ConnectResult == V4ConnectToSolidworks(session, doc, "", "None").result

\* C16: in main.py, when connect_to_solidworks returns False the run ends
\* with exit status 1 and extract_complete_tree is never called: no document
\* information is read and no feature is visited.
C16_FailedConnectExitsWithOne ==
    (extractor \in { "main", "v4" } /\ session # EmptyDict /\ ~ ConnectResult)
    => /\ extractor = "main"
       /\ pc \in { "start", "exited" }
       /\ pc = "exited" => exit_status = 1
       /\ pc = "start" => exit_status = -1
       /\ complete_data = EmptyDict /\ features = << >> /\ feature = 0

C16_Witness ==
    /\ extractor = "main" /\ pc = "exited" /\ exit_status = 1
    /\ session.dispatch = "ok" /\ session.active_doc = "None"
    /\ sw_model = "None"

\* C18: in FMDT_v3, when the analysis of a feature faults inside
\* _analyze_feature_comprehensive after Name and GetTypeName2 have answered,
\* a record is appended for it with an 'error' marker and with its name and
\* type, and the traversal goes on to its sub-features and next sibling: at
\* the end of the first traversal every feature has a record with its name
\* and type.
C18_FailedRecordKeepsNameAndType ==
    ( /\ extractor = "v3" /\ runs = 1 /\ pc = "done"
      /\ \A i \in 1..doc.n : doc.fault[i] \notin { "name", "next" } )
    => \A f \in 1..doc.n :
          \E k \in 1..Len(feature_data) :
             /\ feature_data[k].name = doc.name[f]
             /\ feature_data[k].type = doc.type[f]
             /\ doc.fault[f] \in { "suppressed", "params" }
                   => "error" \in DOMAIN feature_data[k]

RECURSIVE PreorderChain(_, _)
\* the features of the chain that starts at f, each followed by its
\* sub-features, in the native order
PreorderChain(d, f) ==
    IF f = 0 THEN << >>
    ELSE << f >> \o PreorderChain(d, GetFirstSubFeature(d, f))
                 \o PreorderChain(d, NextSibling(d, f))

\* the position of f in the chain of its siblings, from 1
PositionInChain(d, f) ==
    Cardinality({ j \in Siblings(d, d.parent[f]) : j <= f })

RECURSIVE IndexPath(_, _)
\* k for the k-th top-level feature, P.j for the j-th sub-feature of P
IndexPath(d, f) ==
    IF d.parent[f] = 0 THEN ToString(PositionInChain(d, f))
    ELSE IndexPath(d, d.parent[f]) \o "." \o ToString(PositionInChain(d, f))

\* C19: in FMDT_v3 the k-th top-level feature has index k, the j-th
\* sub-feature of the feature with index P has index P.j at every depth, and
\* within one run no two records share an index.
C19_IndexIsPathAndUnique ==
    (extractor = "v3" /\ runs = 1)
    => /\ Len(feature_data) <= doc.n
       /\ \A k \in 1..Len(feature_data) :
             feature_data[k].index = IndexPath(doc, PreorderChain(doc, FirstFeature(doc))[k])
       /\ \A k, l \in 1..Len(feature_data) :
             k # l => feature_data[k].index # feature_data[l].index

\* a sub-feature at depth two has been recorded after a faulty first feature
C19_Witness ==
    /\ extractor = "v3" /\ runs = 1 /\ pc = "done"
    /\ doc.n = 3 /\ doc.parent = << 0, 1, 2 >>
    /\ doc.fault[1] = "suppressed"
    /\ Len(feature_data) = 3
    /\ feature_data[3].index = "1.1.1"

RECURSIVE CountNamed(_, _)
\* how many nodes of a FMDT_v4 feature list, at any depth, carry the name
CountNamed(list, nm) ==
    IF list = << >> THEN 0
    ELSE (IF Head(list).name = nm THEN 1 ELSE 0)
         + CountNamed(Head(list).children, nm) + CountNamed(Tail(list), nm)

\* every feature of the document, at every depth, is recorded exactly once
EveryFeatureRecordedOnce ==
    IF extractor = "v3"
    THEN /\ Len(feature_data) = doc.n
         /\ \A f \in 1..doc.n :
               Cardinality({ k \in 1..Len(feature_data) :
                               feature_data[k].name = doc.name[f] }) = 1
    ELSE \A f \in 1..doc.n :
            CountNamed(complete_data.feature_tree, doc.name[f]) = 1

\* C20: on a finite strictly nested feature tree and without faults, the walk
\* of FMDT_v3 traverse_feature_tree and of FMDT_v4 extract_feature_tree
\* terminates with the top-level chain exhausted, and by then every feature
\* at any depth has been recorded exactly once.
C20_WalkTerminatesComplete ==
    /\ (pc = "start") ~> (pc = "done")
    /\ [](pc = "done" /\ runs <= 1 => feature = 0 /\ EveryFeatureRecordedOnce)

\* a walk over a three-level tree has ended
C20_Witness ==
    /\ pc = "done" /\ runs <= 1
    /\ doc.n = 3 /\ doc.parent = << 0, 1, 2 >>
    /\ EveryFeatureRecordedOnce

\* the paths of the batch whose file open_document opened
OpenedPaths ==
    { file_list.paths[k] : k \in { j \in 1..Len(file_list.paths) :
          file_list.files[file_list.paths[j]].opens = "ok" } }

\* the feature names of the document held by the file at path
OwnNames(path) ==
    { file_list.files[path].doc.name[i] : i \in 1..file_list.files[path].doc.n }

\* C21: in the results batch_analyze_files returns there is one entry per
\* file that opened, none for a file that failed to open, and the features of
\* each entry are exactly the records of a traversal of that file's own
\* document from an empty feature_data: every record carries a name of that
\* document and none the name of a feature of another file.
C21_BatchResultsHoldOwnRecords ==
    (extractor = "v3" /\ pc = "done" /\ file_list.connect) =>
        /\ DOMAIN results = OpenedPaths
        /\ \A path \in DOMAIN results :
             LET own == results[path].features IN
             /\ own = V3TraverseFeatureTree("doc", file_list.files[path].doc, << >>)
             /\ Len(own) <= file_list.files[path].doc.n
             /\ \A k \in 1..Len(own) : own[k].name \in OwnNames(path)

\* two files opened one after the other, each with features of its own
C21_Witness ==
    /\ extractor = "v3" /\ pc = "done" /\ file_list.connect
    /\ file_list.paths = << File1, File2 >>
    /\ DOMAIN results = { File1, File2 }
    /\ Len(results[File1].features) >= 2
    /\ Len(results[File2].features) >= 1

\* C22: in the tree extract_feature_tree (FMDT_v5) returns, for every node of
\* creation_sequence with a non-empty dependencies list,
\* feature_relationships[node name] is that node's own dependencies list,
\* also when two features carry the same name; a node whose dependencies
\* are empty has no entry of its own.
C22_RelationshipsAreOwnDependencies ==
    (extractor = "v5" /\ pc = "done") =>
        \A k \in 1..Len(tree_data.creation_sequence) :
            LET node == tree_data.creation_sequence[k] IN
            IF node.dependencies # << >>
            THEN /\ node.name \in DOMAIN tree_data.feature_relationships
                 /\ tree_data.feature_relationships[node.name] = node.dependencies
            ELSE node.name \notin DOMAIN tree_data.feature_relationships

\* the value save_to_json must write for a leaf: itself when JSON-native,
\* its string representation otherwise
AsWritten(v) ==
    IF v.type \in JsonNative
    THEN [json |-> IF v.type = "int" THEN "number" ELSE "string", text |-> v.value]
    ELSE [json |-> "string", text |-> Str(v)]

\* C23: save_to_json (FMDT_v4) with a file name to write to: when the file
\* can be written it returns the file name and the file holds every
\* serializable value unchanged and every non-serializable value as its
\* string representation, whatever values the data holds; when the file
\* cannot be written it returns "".
C23_SaveCoercesAndReturnsName ==
    (extractor = "v4" /\ pc = "done" /\ returned.kind # "raise") =>
        IF output_file.writable
        THEN /\ returned.kind = "ok" /\ returned.data # ""
             /\ output_file.given => returned.data = output_file.name
             /\ returned.data \in DOMAIN written
             /\ LET file == written[returned.data] IN
                /\ DOMAIN file = { "document_info", "feature_tree" }
                /\ file.document_info = AsWritten(complete_data.document_info)
                /\ Len(file.feature_tree) = Len(complete_data.feature_tree)
                /\ \A i \in 1..Len(file.feature_tree) :
                     file.feature_tree[i] = AsWritten(complete_data.feature_tree[i])
        ELSE returned = Ok("") /\ written = EmptyDict

\* data with a COM object beside a native value, saved under the default name
C23_Witness ==
    /\ extractor = "v4" /\ pc = "done"
    /\ ~ output_file.given /\ output_file.writable
    /\ returned = Ok("P1_S_feature_tree.json")
    /\ \E i, j \in 1..Len(complete_data.feature_tree) :
         /\ complete_data.feature_tree[i].type = "COMObject"
         /\ complete_data.feature_tree[j].type = "int"
         /\ written[returned.data].feature_tree[i].text = "<COMObject IFeature>"

RECURSIVE InSubtree(_, _, _)
\* feature i is feature c or one of its descendants
InSubtree(d, i, c) ==
    i # 0 /\ (i = c \/ InSubtree(d, d.parent[i], c))

RECURSIVE TreeNames(_)
\* the names of all nodes of a list of nodes, children included
TreeNames(list) ==
    IF list = << >> THEN {}
    ELSE {list[1].name} \cup TreeNames(list[1].children) \cup TreeNames(Tail(list))

\* C24: when the extraction of exactly one sub-feature fails (its Name or its
\* IsSuppressed accessor raises) in _extract_feature_data of FMDT_v4, the
\* returned tree still holds its parent and every other feature, each under
\* its own parent in native order: only the failing sub-feature and its
\* subtree are absent, at any depth.
C24_FailedSubFeatureLosesOnlyItsSubtree ==
    \A c \in 1..doc.n :
        ( /\ extractor = "v4" /\ pc = "done" /\ doc.meta_fault = ""
          /\ doc.parent[c] # 0
          /\ doc.fault[c] \in {"name", "suppressed"}
          /\ \A i \in 1..doc.n : i # c => doc.fault[i] = "none" )
        => /\ TreeNames(complete_data.feature_tree)
                = { doc.name[i] : i \in { j \in 1..doc.n : ~ InSubtree(doc, j, c) } }
           /\ InNativeOrder(doc, complete_data.feature_tree, 0)

V5TreeKeys ==
    { "document_type", "creation_sequence", "feature_relationships",
      "sketch_data", "reference_geometry", "material_properties",
      "configurations" }

\* C25: extract_feature_tree of FMDT_v5 never raises: with or without a
\* model, whatever accessor faults, it ends by returning a mapping that has
\* all seven keys.
C25_TreeAlwaysReturnedWithAllKeys ==
    extractor = "v5" =>
        /\ pc # "raised"
        /\ pc # "start" => DOMAIN tree_data = V5TreeKeys

\* every document-level accessor faults and the Name accessor of the second
\* feature raises: the walk was cut after one record and the tree returned
C25_Witness ==
    /\ extractor = "v5" /\ pc = "done"
    /\ sw_model = "doc" /\ doc.meta_fault = "all"
    /\ \E i \in 1..doc.n : doc.fault[i] = "name"
    /\ DOMAIN tree_data = V5TreeKeys
    /\ Len(tree_data.creation_sequence) = 1

\* the position in feature_data of the record that carries the name of f
RecordOf(f) == CHOOSE k \in 1..Len(feature_data) : feature_data[k].name = doc.name[f]

IsRecorded(f) == \E k \in 1..Len(feature_data) : feature_data[k].name = doc.name[f]

\* C26: during and after one traverse_feature_tree of FMDT_v3 from an empty
\* feature_data, the records are in pre-order: the record of a feature
\* precedes the records of its descendants, and the records of a feature and
\* of its whole subtree precede the record of each of its later siblings.
C26_RecordsInPreorder ==
    (extractor = "v3" /\ runs = 1) =>
        \A a, b \in { f \in 1..doc.n : IsRecorded(f) } :
            /\ (a # b /\ InSubtree(doc, b, a)) => RecordOf(a) < RecordOf(b)
            /\ (doc.parent[a] = doc.parent[b] /\ a < b) =>
                 \A c \in { f \in 1..doc.n : IsRecorded(f) } :
                     InSubtree(doc, c, a) => RecordOf(c) < RecordOf(b)

\* a feature, its sub-feature, then its next sibling, all three recorded
C26_Witness ==
    /\ extractor = "v3" /\ runs = 1 /\ pc = "done"
    /\ doc.n = 3 /\ doc.parent = << 0, 1, 0 >>
    /\ \A f \in 1..3 : IsRecorded(f)
    /\ RecordOf(1) = 1 /\ RecordOf(2) = 2 /\ RecordOf(3) = 3

\* C27: from the return of close_model (FMDT_v3) until the next open_document
\* that returns True, the traverser has sw_model = None and an empty
\* feature_data, whatever traverse_feature_tree, get_comprehensive_statistics
\* and failing open_document calls are made in between.
C27_ClosedTraverserIsEmpty ==
    (extractor = "v3session" /\ pc = "closed")
    => sw_model = "None" /\ feature_data = << >>

\* the records of feature_data with indent_level 0, in order
TopLevelRecords == SelectSeq(feature_data, LAMBDA r : r.indent_level = 0)

\* C28: create_feature_recreation_guide on the file _export_to_json wrote (a
\* JSON list of feature records) returns the guide file name, not None, and
\* the guide has one step per record of indent_level 0, numbered 1, 2, ...
C28_GuideFromExportedList ==
    ( /\ extractor = "guide" /\ pc = "done"
      /\ output_file = AnalysisFile /\ AnalysisFile \in DOMAIN written )
    => /\ returned = Ok(GuideFile)
       /\ Len(guide_content) = Len(TopLevelRecords)
       /\ \A k \in 1..Len(guide_content) :
            guide_content[k] = "## Step " \o ToString(k) \o ": " \o TopLevelRecords[k].name

\* C29: in the document extract_complete_tree (FMDT_v4) returns, feature_count
\* is the number of top-level entries of feature_tree, whatever features
\* were dropped and however many children the entries have.
C29_FeatureCountIsTopLevelLength ==
    (extractor = "v4" /\ pc = "done")
    => complete_data.feature_count = Len(complete_data.feature_tree)

\* one top-level feature was dropped and the other is returned with a child
C29_Witness ==
    /\ extractor = "v4" /\ pc = "done"
    /\ Cardinality(TopLevel(doc)) = 2
    /\ Len(complete_data.feature_tree) = 1
    /\ Len(complete_data.feature_tree[1].children) = 1
    /\ complete_data.feature_count = 1

\* the document the last call asked for
RequestedDocument ==
    IF session.file_path = "" THEN "ActiveDoc" ELSE session.file_path

\* the last call got as far as assigning self.sw_model
AssignedByLastCall ==
    /\ session.dispatch = "ok"
    /\ IF session.file_path = "" THEN session.active_doc # "fault"
       ELSE session.file_exists /\ session.open_doc # "fault"

\* C30: after every connect_to_solidworks call (FMDT_v4 and
\* ApplicationSession), with or without a path, in any sequence of calls: if
\* the call returned a truthy value, sw_model is not None and is the document
\* that call asked for; if it returned False, sw_model is not a document
\* attached by an earlier call.
C30_ConnectResultMatchesModel ==
    (extractor \in { "connect_v4", "connect_session" } /\ runs >= 1) =>
        /\ returned.truthy =>
             sw_model # "None" /\ sw_model = RequestedDocument
        /\ ~ returned.truthy =>
             sw_model = "None" \/ AssignedByLastCall

====
